---- MODULE Spec2Model ----
(***************************************************************************)
(* Sensor resolution and health tracking of hanluku-system-monitor.        *)
(*                                                                         *)
(*   monitoring/sensor_manager.py  SensorManager (health tracker, reads)   *)
(*   core/sensor_cache.py          the persisted resolution cache          *)
(*   config/config.py              save_atomic                             *)
(*   core/hardware_manager.py      HardwareManager (inventory, fingerprint)*)
(*                                                                         *)
(* One set of variables, several specifications: each specification runs   *)
(* the operations of one component and leaves the other components' state   *)
(* where its Init put it.                                                   *)
(***************************************************************************)
EXTENDS Integers, Sequences, FiniteSets, TLC

VARIABLES
    \* ---- SensorManager (monitoring/sensor_manager.py)
    now,                \* time.time(), in seconds
    clockSteps,         \* how many times the clock has advanced (bounds the run)
    sensor_health,      \* self._sensor_health: sensor_key -> dict
    sensor_read_count,  \* self._sensor_read_count
    successful_reads,   \* self._successful_reads
    failed_reads,       \* self._failed_reads
    \* ---- HardwareManager's active sensors, as the SensorManager sees them
    cpu_sensor,         \* hw_manager.cpu_sensor: a sensor id or NoSensor
    gpu_sensors,        \* hw_manager.gpu_sensors: name -> sensor id
    storage_sensors,    \* hw_manager.storage_sensors: key -> sensor id
    \* ---- history of the reads (observations, not program state)
    lastTick,           \* sensor_key -> what the tick just run did with that key
    lastData,           \* the keys of the dict that tick returned
    failRun,            \* sensor_key -> failed reads since the last successful one
    delays,             \* sensor_key -> cooldowns set since the last successful read
    \* ---- the cache file and its directory (core/sensor_cache.py, config/config.py)
    cacheFile,          \* the content of CACHE_FILE
    tempFiles,          \* the forms of the .tmp* files left behind in CONFIG_DIR
    backups,            \* the sensor_cache_corrupted_<time>.json.bak files
    sensor_cache,       \* HardwareManager.sensor_cache, the cache in memory
    lastOp,             \* the cache operation just run: its inputs and its result
    opCount,            \* how many steps of the cache's callers have run (bounds the run)
    \* ---- a save_atomic call in progress (config/config.py)
    savePc,             \* where the call stands: idle, mkstemp, dump, close or replace
    saveData,           \* the dict the call writes (kept after it returns)
    saveTemp,           \* the content of the temp file the call holds
    observed,           \* what another reader of CACHE_FILE read last
    \* ---- HardwareManager (core/hardware_manager.py) and the machine
    hardware,           \* computer.Hardware: the top-level nodes as enumerated
    hardware_fingerprint, \* self.hardware_fingerprint
    cache_updated,      \* self.cache_updated
    cpus,               \* self.cpus
    gpus,               \* self.gpus
    computer,           \* self.computer is set (not None)
    failed_sensors,     \* self.failed_sensors: key -> what is known of the failure
    \* ---- two threads at work on the HardwareManager's dicts
    worker,             \* the worker's read_all_sensors call: its position and locals
    control             \* the control thread's call: the statements it has yet to run

healthVars == <<now, clockSteps, sensor_health, sensor_read_count,
                successful_reads, failed_reads, lastTick, lastData, failRun, delays>>
activeVars == <<cpu_sensor, gpu_sensors, storage_sensors>>
cacheVars == <<cacheFile, tempFiles, backups, sensor_cache, lastOp, opCount>>
saveVars == <<savePc, saveData, saveTemp, observed>>
hwVars == <<hardware, hardware_fingerprint, cache_updated, cpus, gpus, computer>>
diagVars == <<failed_sensors>>
raceVars == <<worker, control>>
vars == <<healthVars, activeVars, cacheVars, saveVars, hwVars, diagVars, raceVars>>

(***************************************************************************)
(* Small helpers for Python dicts, modelled as functions.                   *)
(***************************************************************************)
Min(a, b) == IF a <= b THEN a ELSE b

EmptyDict == <<>>

\* d.get(k, default)
Get(d, k, default) == IF k \in DOMAIN d THEN d[k] ELSE default

\* d[k] = v
Put(d, k, v) == [x \in (DOMAIN d) \cup {k} |-> IF x = k THEN v ELSE d[x]]

\* d.pop(k, None)
Pop(d, k) == [x \in (DOMAIN d) \ {k} |-> d[x]]

(***************************************************************************)
(* Files of CONFIG_DIR. A file's content is one of                          *)
(*   missing   no such file             empty    no text (or white space)   *)
(*   garbage   text that is not JSON    list     JSON, but not an object    *)
(*   object    the JSON text of a dict  partial  a cut-off JSON text        *)
(***************************************************************************)
NoFile == [form |-> "missing", body |-> EmptyDict]
EmptyFile == [form |-> "empty", body |-> EmptyDict]
GarbageFile == [form |-> "garbage", body |-> EmptyDict]
ListFile == [form |-> "list", body |-> EmptyDict]
ObjectFile(d) == [form |-> "object", body |-> d]
PartialFile(d) == [form |-> "partial", body |-> d]

\* No cache operation has run (or the last step was none).
NoOp == [op |-> "none"]
NoRead == [form |-> "unread", body |-> EmptyDict]

\* No save_atomic call is running and nobody has read the file.
SaveIdle ==
    /\ savePc = "idle"
    /\ saveData = EmptyDict
    /\ saveTemp = NoFile
    /\ observed = NoRead

\* A local variable that names no dict yet. A local names either the dict the
\* manager's attribute names (alias) or a dict the manager has let go of, whose
\* content nobody changes any more.
NoRef == [alias |-> FALSE, content |-> EmptyDict]

\* The worker is between two ticks and the control thread runs no call.
WorkerIdle ==
    [pc |-> "idle", gpu_sensors |-> NoRef, storage_sensors |-> NoRef, used |-> 0, pos |-> 0,
     gpu_read |-> EmptyDict, temps |-> <<>>]
ControlIdle == [op |-> "none", todo |-> <<>>, gpu_before |-> EmptyDict, storage_before |-> <<>>]

\* One thread at a time, and no failed resolution on record.
Sequential ==
    /\ worker = WorkerIdle
    /\ control = ControlIdle
    /\ failed_sensors = EmptyDict

\* No HardwareManager has been constructed on a machine without devices.
HwIdle ==
    /\ hardware = <<>>
    /\ hardware_fingerprint = ""
    /\ cache_updated = FALSE
    /\ cpus = <<>>
    /\ gpus = <<>>
    /\ computer = FALSE


\* The cache state of a specification that runs no cache operation.
CacheIdle ==
    /\ SaveIdle
    /\ HwIdle
    /\ cacheFile = NoFile
    /\ opCount = 0
    /\ tempFiles = {}
    /\ backups = {}
    /\ sensor_cache = EmptyDict
    /\ lastOp = NoOp

(***************************************************************************)
(* SensorManager: constants set in __init__.                                *)
(***************************************************************************)
max_consecutive_failures == 3
initial_backoff_sec == 15
max_backoff_sec == 300

\* Bounds of the health specifications.
MaxClockSteps == 6
MaxReads == 21
MaxTickSteps == 4
MaxTickReads == 10

\* The clock advances by a short or by a long step between two ticks.
ShortStep == 5
LongStep == 300

NoSensor == "None"

\* What a sensor object can answer when its Value is read:
\*   "value"  a number,            "zero"   the number 0,
\*   "none"   Value is None (or the attribute is missing),
\*   "raises" reading Value or float(Value) raises.
SensorStates == {"value", "zero", "none", "raises"}
NoValue == "None"

\* delay = min(self.max_backoff_sec, self.initial_backoff_sec * (2 ** backoff_level))
BackoffDelayUncapped(backoff_level) == initial_backoff_sec * (2 ^ backoff_level)

BackoffDelay(backoff_level) ==
    Min(max_backoff_sec, initial_backoff_sec * (2 ^ backoff_level))

\* if health['consecutive_failures'] >= self._max_consecutive_failures
ThresholdReachedLate(failures) == failures > max_consecutive_failures

ThresholdReached(failures) == failures >= max_consecutive_failures

\* if disabled_until and time.time() < disabled_until: return None
InCooldownInclusive(health, t) ==
    /\ "disabled_until" \in DOMAIN health
    /\ health["disabled_until"] # 0
    /\ t <= health["disabled_until"]

InCooldown(health, t) ==
    /\ "disabled_until" \in DOMAIN health
    /\ health["disabled_until"] # 0
    /\ t < health["disabled_until"]

\* _track_sensor_health(sensor_key, success): the new self._sensor_health.
TrackSensorHealthShared(sh, sensor_key, success, t) ==
    LET fresh == [consecutive_failures |-> 0, backoff_level |-> 0]
        health == IF sensor_key \in DOMAIN sh THEN sh[sensor_key] ELSE fresh
        failures == health["consecutive_failures"] + 1
        backoff_level == Get(health, "backoff_level", 0)
        new == IF success
                 THEN Pop(Put(Put(health, "consecutive_failures", 0),
                              "backoff_level", 0), "disabled_until")
                 ELSE IF ThresholdReached(failures)
                        THEN Put(Put(Put(health, "consecutive_failures", 0),
                                     "disabled_until", t + BackoffDelay(backoff_level)),
                                 "backoff_level", backoff_level + 1)
                        ELSE Put(health, "consecutive_failures", failures)
    IN  [k \in (DOMAIN sh) \cup {sensor_key} |-> new]

TrackSensorHealth(sh, sensor_key, success, t) ==
    LET fresh == [consecutive_failures |-> 0, backoff_level |-> 0]
        health == IF sensor_key \in DOMAIN sh THEN sh[sensor_key] ELSE fresh
        failures == health["consecutive_failures"] + 1
        backoff_level == Get(health, "backoff_level", 0)
        new == IF success
                 THEN Pop(Put(Put(health, "consecutive_failures", 0),
                              "backoff_level", 0), "disabled_until")
                 ELSE IF ThresholdReached(failures)
                        THEN Put(Put(Put(health, "consecutive_failures", 0),
                                     "disabled_until", t + BackoffDelay(backoff_level)),
                                 "backoff_level", backoff_level + 1)
                        ELSE Put(health, "consecutive_failures", failures)
    IN  Put(sh, sensor_key, new)

(***************************************************************************)
(* The SensorManager's mutable fields as one value, threaded through the    *)
(* reads of a tick in the order the code performs them.                     *)
(*   m.health, m.reads, m.ok, m.failed  the fields                          *)
(*   m.log   sensor_key -> [skipped, accessed, returned, answer] of its read*)
(***************************************************************************)
\* _safe_sensor_read(sensor, sensor_key) with the sensor answering `state`.
SafeSensorRead(m, sensor_key, state, t) ==
    LET health == Get(m.health, sensor_key, EmptyDict)
        entry(skipped, accessed, returned) ==
            [skipped |-> skipped, accessed |-> accessed, returned |-> returned,
             answer |-> state]
        counted == [m EXCEPT !.reads = m.reads + 1]
    IN  IF InCooldown(health, t)
          THEN [counted EXCEPT !.log = Put(m.log, sensor_key, entry(TRUE, FALSE, NoValue))]
          ELSE IF state = "none"
            THEN [counted EXCEPT
                    !.health = TrackSensorHealth(m.health, sensor_key, FALSE, t),
                    !.log = Put(m.log, sensor_key, entry(FALSE, TRUE, NoValue))]
          ELSE IF state = "raises"
            THEN [counted EXCEPT
                    !.health = TrackSensorHealth(m.health, sensor_key, FALSE, t),
                    !.failed = m.failed + 1,
                    !.log = Put(m.log, sensor_key, entry(FALSE, TRUE, NoValue))]
          ELSE [counted EXCEPT
                    !.health = TrackSensorHealth(m.health, sensor_key, TRUE, t),
                    !.ok = m.ok + 1,
                    !.log = Put(m.log, sensor_key, entry(FALSE, TRUE, state))]

\* The value the read of sensor_key returned in m (None when it was not read).
Returned(m, sensor_key) ==
    IF sensor_key \in DOMAIN m.log THEN m.log[sensor_key].returned ELSE NoValue

\* read_cpu_temperature
ReadCpuTemperature(m, vals, t) ==
    IF cpu_sensor # NoSensor
      THEN LET r == SafeSensorRead(m, "cpu_temp", vals[cpu_sensor], t)
           IN  IF Returned(r, "cpu_temp") # NoValue
                 THEN [r EXCEPT !.data = r.data \cup {"cpu_temp"}]
                 ELSE r
      ELSE m

\* sensor_map of read_gpu_data: <<data_key, sensor_name>>, in dict order.
GpuSensorMap ==
    << <<"gpu_core_temp", "gpu_core_temp">>, <<"gpu_hotspot_temp", "gpu_hotspot_temp">>,
       <<"gpu_memory_temp", "gpu_memory_temp">>, <<"gpu_core_clock", "core_clock">>,
       <<"gpu_memory_clock", "memory_clock">>, <<"gpu_power", "power">> >>

\* The for loop of read_gpu_data over sensor_map, from entry i on.
RECURSIVE ReadGpuLoop(_, _, _, _)
ReadGpuLoop(m, vals, t, i) ==
    IF i > Len(GpuSensorMap) THEN m
    ELSE LET data_key == GpuSensorMap[i][1]
             sensor_name == GpuSensorMap[i][2]
             key == "gpu_" \o sensor_name
         IN  IF sensor_name \in DOMAIN gpu_sensors
               THEN LET r == SafeSensorRead(m, key, vals[gpu_sensors[sensor_name]], t)
                        r2 == IF Returned(r, key) # NoValue
                                THEN [r EXCEPT !.data = r.data \cup {data_key}]
                                ELSE r
                    IN  ReadGpuLoop(r2, vals, t, i + 1)
               ELSE ReadGpuLoop(m, vals, t, i + 1)

\* read_gpu_data
ReadGpuData(m, vals, t) ==
    IF DOMAIN gpu_sensors = {} THEN m
    ELSE LET g == ReadGpuLoop(m, vals, t, 1)
         IN  IF "vram_used" \in DOMAIN gpu_sensors /\ "vram_total" \in DOMAIN gpu_sensors
               THEN LET u == SafeSensorRead(g, "gpu_vram_used",
                                            vals[gpu_sensors["vram_used"]], t)
                        w == SafeSensorRead(u, "gpu_vram_total",
                                            vals[gpu_sensors["vram_total"]], t)
                    IN  IF /\ Returned(w, "gpu_vram_used") # NoValue
                           /\ Returned(w, "gpu_vram_total") # NoValue
                           /\ Returned(w, "gpu_vram_total") # "zero"
                          THEN [w EXCEPT !.data = w.data \cup
                                  {"vram_used_gb", "vram_total_gb", "vram_percent"}]
                          ELSE w
               ELSE g

\* The for loop of read_storage_temperatures; storage_sensors keeps the dict's
\* insertion order as a sequence of [key, sensor].
RECURSIVE ReadStorageLoop(_, _, _, _)
ReadStorageLoop(m, vals, t, i) ==
    IF i > Len(storage_sensors) THEN m
    ELSE LET key == "storage_" \o storage_sensors[i].key
             r == SafeSensorRead(m, key, vals[storage_sensors[i].sensor], t)
             r2 == IF Returned(r, key) # NoValue
                     THEN [r EXCEPT !.data = r.data \cup {"storage_temps"}]
                     ELSE r
         IN  ReadStorageLoop(r2, vals, t, i + 1)

\* read_storage_temperatures
ReadStorageTemperatures(m, vals, t) ==
    IF Len(storage_sensors) = 0 THEN m ELSE ReadStorageLoop(m, vals, t, 1)

\* read_all_sensors, with no custom sensor configured (custom_sensor_objects is
\* empty, so read_custom_sensor_data returns {}).
ReadAll(m, vals, t) ==
    ReadStorageTemperatures(ReadGpuData(ReadCpuTemperature(m, vals, t), vals, t), vals, t)

\* The sensor objects the active maps hold.
ActiveSensors ==
    (IF cpu_sensor # NoSensor THEN {cpu_sensor} ELSE {})
      \cup {gpu_sensors[n] : n \in DOMAIN gpu_sensors}
      \cup {storage_sensors[i].sensor : i \in 1..Len(storage_sensors)}

(***************************************************************************)
(* History of the reads, computed from what a tick did.                     *)
(***************************************************************************)
\* A read of key that was performed and failed / succeeded in this tick.
ReadFailed(log, key) ==
    key \in DOMAIN log /\ ~log[key].skipped /\ log[key].returned = NoValue
ReadSucceeded(log, key) ==
    key \in DOMAIN log /\ ~log[key].skipped /\ log[key].returned # NoValue

\* The tick set a new disabled_until for key.
NewlyDisabled(old, new, key) ==
    /\ key \in DOMAIN new
    /\ "disabled_until" \in DOMAIN new[key]
    /\ \/ key \notin DOMAIN old
       \/ "disabled_until" \notin DOMAIN old[key]
       \/ old[key]["disabled_until"] # new[key]["disabled_until"]

NextFailRun(log) ==
    [k \in (DOMAIN failRun) \cup (DOMAIN log) |->
        IF ReadSucceeded(log, k) THEN 0
        ELSE IF ReadFailed(log, k) THEN Get(failRun, k, 0) + 1
        ELSE Get(failRun, k, 0)]

NextDelays(log, new, t) ==
    [k \in (DOMAIN delays) \cup (DOMAIN log) |->
        IF ReadSucceeded(log, k) THEN <<>>
        ELSE IF NewlyDisabled(sensor_health, new, k)
               THEN Append(Get(delays, k, <<>>), new[k]["disabled_until"] - t)
        ELSE Get(delays, k, <<>>)]

(***************************************************************************)
(* Actions of the SensorManager.                                            *)
(***************************************************************************)
\* One tick of the worker: read_all_sensors with the sensors answering vals.
ReadAllSensors(maxReads, states) ==
    /\ sensor_read_count + Cardinality(ActiveSensors) <= maxReads
    /\ \E vals \in [ActiveSensors -> states] :
         \E m \in {ReadAll([health |-> sensor_health, reads |-> sensor_read_count,
                              ok |-> successful_reads, failed |-> failed_reads,
                              log |-> EmptyDict, data |-> {}], vals, now)} :
             /\ sensor_health' = m.health
             /\ sensor_read_count' = m.reads
             /\ successful_reads' = m.ok
             /\ failed_reads' = m.failed
             /\ lastTick' = m.log
             /\ lastData' = m.data
             /\ failRun' = NextFailRun(m.log)
             /\ delays' = NextDelays(m.log, m.health, now)
    /\ UNCHANGED <<now, clockSteps, activeVars, cacheVars, saveVars, hwVars, diagVars, raceVars>>

\* Time passes between two ticks.
AdvanceClock(maxSteps, steps) ==
    /\ clockSteps < maxSteps
    /\ \E d \in steps : now' = now + d
    /\ clockSteps' = clockSteps + 1
    /\ lastTick' = EmptyDict
    /\ lastData' = {}
    /\ UNCHANGED <<sensor_health, sensor_read_count, successful_reads, failed_reads,
                   failRun, delays, activeVars, cacheVars, saveVars, hwVars, diagVars, raceVars>>

InitHealth ==
    /\ now = 0
    /\ clockSteps = 0
    /\ sensor_health = EmptyDict
    /\ sensor_read_count = 0
    /\ successful_reads = 0
    /\ failed_reads = 0
    /\ lastTick = EmptyDict
    /\ lastData = {}
    /\ failRun = EmptyDict
    /\ delays = EmptyDict

(***************************************************************************)
(* SpecBackoff: a manager whose only active sensor is the CPU temperature.  *)
(***************************************************************************)
InitBackoff ==
    /\ InitHealth
    /\ Sequential
    /\ cpu_sensor = "/cpu/0/temperature/0"
    /\ gpu_sensors = EmptyDict
    /\ storage_sensors = <<>>
    /\ CacheIdle

TickBackoff == ReadAllSensors(MaxReads, {"value", "none", "raises"})
ClockBackoff == AdvanceClock(MaxClockSteps, {LongStep})
NextBackoff == TickBackoff \/ ClockBackoff
SpecBackoff == InitBackoff /\ [][NextBackoff]_vars

(***************************************************************************)
(* SpecTick: a manager with two active sensors, both read in every tick     *)
(* (the GPU's VRAM sensors; no CPU temperature sensor was resolved).        *)
(***************************************************************************)
InitTick ==
    /\ InitHealth
    /\ Sequential
    /\ cpu_sensor = NoSensor
    /\ gpu_sensors = [vram_used |-> "/gpu/0/smalldata/1", vram_total |-> "/gpu/0/smalldata/2"]
    /\ storage_sensors = <<>>
    /\ CacheIdle

TickAll == ReadAllSensors(MaxTickReads, SensorStates)
ClockTick == AdvanceClock(MaxTickSteps, {ShortStep, LongStep})
NextTick == TickAll \/ ClockTick
SpecTick == InitTick /\ [][NextTick]_vars

(***************************************************************************)
(* Claims about the health tracker.                                         *)
(***************************************************************************)
\* The cooldowns of the spec: 15s, 30s, 60s, 120s, 240s, 300s, 300s, ...
CooldownSequence == <<15, 30, 60, 120, 240, 300, 300, 300>>

\* C1: for a key that keeps failing, the k-th cooldown set since the last
\* successful read is min(300, 15 * 2^k) seconds (15, 30, 60, 120, 240, 300,
\* 300, ...), so the cooldowns never decrease and never exceed max_backoff; a
\* successful read puts backoff_level back to 0, so the next cooldown is 15s.
C1_CooldownSequence ==
    /\ \A k \in DOMAIN delays :
         \A i \in 1..Len(delays[k]) :
            /\ delays[k][i] = IF i <= Len(CooldownSequence)
                                THEN CooldownSequence[i] ELSE max_backoff_sec
            /\ delays[k][i] <= max_backoff_sec
            /\ i > 1 => delays[k][i - 1] <= delays[k][i]
    /\ \A k \in DOMAIN sensor_health :
         /\ sensor_health[k].backoff_level = Len(delays[k])
         /\ ReadSucceeded(lastTick, k) => sensor_health[k].backoff_level = 0

\* C1 witness: a key was disabled seven times in a row, the last two times for 300s.
C1_Witness ==
    \E k \in DOMAIN delays :
        /\ Len(delays[k]) = 7
        /\ delays[k][6] = 300 /\ delays[k][7] = 300

\* C2: a key is disabled exactly when 3 failed reads follow one another with no
\* successful read between them: with n failed reads since the last success the
\* counter is n mod 3 (so it stays in 0..2), the key has been disabled n div 3
\* times, it carries no disabled_until while n < 3, and the read that completes
\* a run of 3 sets disabled_until = now + delay with the counter back at 0.
C2_DisabledAfterThreeFailures ==
    \A k \in DOMAIN sensor_health :
        LET h == sensor_health[k]
            n == Get(failRun, k, 0)
        IN  /\ h.consecutive_failures \in 0..(max_consecutive_failures - 1)
            /\ h.consecutive_failures = n % 3
            /\ Len(Get(delays, k, <<>>)) = n \div 3
            /\ ("disabled_until" \in DOMAIN h) <=> (n >= 3)
            /\ (ReadFailed(lastTick, k) /\ n % 3 = 0) =>
                  /\ h.disabled_until = now + delays[k][Len(delays[k])]
                  /\ h.consecutive_failures = 0

\* C2 witness: the third failed read in a row has just disabled a key.
C2_Witness ==
    \E k \in DOMAIN sensor_health :
        /\ ReadFailed(lastTick, k)
        /\ Get(failRun, k, 0) = 3
        /\ "disabled_until" \in DOMAIN sensor_health[k]
        /\ sensor_health[k].disabled_until = now + initial_backoff_sec

\* The key is Disabled and still cooling down at the current time.
Cooling(k) ==
    /\ k \in DOMAIN sensor_health
    /\ "disabled_until" \in DOMAIN sensor_health[k]
    /\ now < sensor_health[k].disabled_until

\* A step that is one tick of read_all_sensors.
IsTick == sensor_read_count' > sensor_read_count

\* C3: a read of a key that is Disabled with now < disabled_until is skipped:
\* it returns no value, does not access the sensor and leaves the key's health
\* record as it was; a read at a time >= disabled_until accesses the sensor.
C3_CooldownSkipsRead ==
    [][IsTick =>
        \A k \in DOMAIN lastTick' :
            /\ lastTick'[k].skipped <=> Cooling(k)
            /\ Cooling(k) =>
                  /\ ~lastTick'[k].accessed
                  /\ lastTick'[k].returned = NoValue
                  /\ sensor_health'[k] = sensor_health[k]
            /\ ~Cooling(k) => lastTick'[k].accessed]_vars

\* C3 witness: a key disabled for 15s is read 5s later, and the read is skipped.
C3_Witness ==
    \E k \in DOMAIN lastTick :
        /\ lastTick[k].skipped
        /\ ~lastTick[k].accessed
        /\ sensor_health[k].backoff_level = 1
        /\ sensor_health[k].disabled_until = now - ShortStep + initial_backoff_sec

\* What reading key k alone, with the sensor answering a, makes of its record.
AloneHealth(k, a) ==
    LET one == IF k \in DOMAIN sensor_health
                 THEN Put(EmptyDict, k, sensor_health[k]) ELSE EmptyDict
        m0 == [health |-> one, reads |-> 0, ok |-> 0, failed |-> 0,
               log |-> EmptyDict, data |-> {}]
    IN  SafeSensorRead(m0, k, a, now)

\* C4: health tracking is per key: in a tick every key ends with the health
\* record, and its read with the result, that reading that key alone would
\* have given (so a key is skipped only for its own cooldown, and a read that
\* is due returns the value its own sensor holds), and no other record changes.
C4_PerKeyIsolation ==
    [][IsTick =>
        /\ \A k \in DOMAIN lastTick' :
              LET alone == AloneHealth(k, lastTick'[k].answer)
              IN  /\ lastTick'[k] = alone.log[k]
                  /\ (k \in DOMAIN sensor_health') = (k \in DOMAIN alone.health)
                  /\ k \in DOMAIN sensor_health' => sensor_health'[k] = alone.health[k]
                  /\ (~Cooling(k) /\ lastTick'[k].answer \in {"value", "zero"}) =>
                        lastTick'[k].returned = lastTick'[k].answer
        /\ \A k \in (DOMAIN sensor_health') \ (DOMAIN lastTick') :
              k \in DOMAIN sensor_health /\ sensor_health'[k] = sensor_health[k]]_vars

\* C4 witness: in one tick one key is skipped for its cooldown and the other
\* key's read returns its value.
C4_Witness ==
    /\ DOMAIN lastTick = {"gpu_vram_used", "gpu_vram_total"}
    /\ lastTick["gpu_vram_total"].skipped
    /\ lastTick["gpu_vram_used"].returned = "value"

(***************************************************************************)
(* The resolution cache (core/sensor_cache.py). A cache is a dict from      *)
(* strings to JSON values; a JSON value carries its type, so that a string, *)
(* a number and null stay apart.                                            *)
(***************************************************************************)
CACHE_VERSION == "2.0"

JStr(s) == [kind |-> "str", val |-> s]
JNum(n) == [kind |-> "num", val |-> n]
JNull == [kind |-> "null", val |-> 0]

\* The keys of the model that begin with '_' (key.startswith('_')); every other
\* key of the model begins with another character.
UnderscoreKeys ==
    {"_cache_version", "_created_timestamp", "_last_updated", "_sensor_count",
     "_hardware_fingerprint", "_migrated_from", "_invalidated_reason",
     "_previous_fingerprint"}
StartsWithUnderscore(key) == key \in UnderscoreKeys

\* {k: v for k, v in cache.items() if not k.startswith('_')}
SensorEntries(cache) ==
    [k \in {x \in DOMAIN cache : ~StartsWithUnderscore(x)} |-> cache[k]]

\* len([k for k in cache.keys() if not k.startswith('_')])
StaleSensorCount(cache) == Get(cache, "_sensor_count", JNum(0)).val

SensorCount(cache) == Cardinality(DOMAIN SensorEntries(cache))

\* json.dump(data, f) as the text of a file, and json.loads of a text: the
\* text of a dict gives the dict back, any other text does not.
JsonDump(data) == ObjectFile(data)
JsonDecodes(file) == file.form \in {"object", "list"}
JsonLoads(file) == file.body

\* _create_empty_cache
CreateEmptyCache(t) ==
    ("_cache_version" :> JStr(CACHE_VERSION)) @@ ("_created_timestamp" :> JNum(t))
      @@ ("_last_updated" :> JNum(t)) @@ ("_sensor_count" :> JNum(0))

\* _migrate_cache
MigrateCacheNoOrigin(old_cache, old_version, t) ==
    LET copied == SensorEntries(old_cache)
        m1 == Put(copied, "_cache_version", JStr(CACHE_VERSION))
        m2 == Put(m1, "_created_timestamp", Get(old_cache, "_created_timestamp", JNum(t)))
        m3 == Put(m2, "_last_updated", JNum(t))
    IN  Put(m3, "_sensor_count", JNum(Cardinality(DOMAIN m3) - 3))

MigrateCache(old_cache, old_version, t) ==
    LET copied == SensorEntries(old_cache)
        m1 == Put(copied, "_cache_version", JStr(CACHE_VERSION))
        m2 == Put(m1, "_created_timestamp", Get(old_cache, "_created_timestamp", JNum(t)))
        m3 == Put(m2, "_last_updated", JNum(t))
        m4 == Put(m3, "_sensor_count", JNum(Cardinality(DOMAIN m3) - 3))
    IN  Put(m4, "_migrated_from", old_version)

\* _validate_cache_structure
MinIdentifierLength == 5

ValidateCacheStructureLenient(cache) ==
    {"_cache_version", "_created_timestamp", "_last_updated"} \subseteq DOMAIN cache

ValidateCacheStructure(cache) ==
    /\ {"_cache_version", "_created_timestamp", "_last_updated"} \subseteq DOMAIN cache
    /\ \A k \in DOMAIN SensorEntries(cache) :
          /\ cache[k].kind = "str"
          /\ Len(cache[k].val) >= MinIdentifierLength

\* _backup_corrupted_cache: the backups afterwards; copy2 may fail (copyOk).
BackupCorruptedCacheNever(file, t, copyOk) == backups

BackupCorruptedCache(file, t, copyOk) ==
    IF file.form = "missing" \/ ~copyOk THEN backups
    ELSE backups \cup {[at |-> t, content |-> file]}

\* load_sensor_cache on `file`: the cache returned, the path taken and whether
\* _backup_corrupted_cache was called. `readable` is FALSE when open() or
\* read() raises.
LoadSensorCache(file, t, readable) ==
    LET fresh == CreateEmptyCache(t)
        answer(cache, path, backup) == [cache |-> cache, path |-> path, backup |-> backup]
    IN  IF file.form = "missing" THEN answer(fresh, "missing", FALSE)
        ELSE IF ~readable THEN answer(fresh, "error", TRUE)
        ELSE IF file.form = "empty" THEN answer(fresh, "empty", FALSE)
        ELSE IF ~JsonDecodes(file) THEN answer(fresh, "decode_error", TRUE)
        ELSE IF file.form # "object" THEN answer(fresh, "not_dict", FALSE)
        ELSE LET raw == JsonLoads(file)
                 cache_version == Get(raw, "_cache_version", JStr("1.0"))
                 migrated == cache_version # JStr(CACHE_VERSION)
                 cache == IF migrated THEN MigrateCache(raw, cache_version, t) ELSE raw
                 cache_timestamp == Get(cache, "_created_timestamp", JNum(0))
             IN  IF ~ValidateCacheStructure(cache) THEN answer(fresh, "invalid", FALSE)
                 ELSE IF cache_timestamp.kind # "num" THEN answer(fresh, "error", TRUE)
                 ELSE answer(cache, IF migrated THEN "migrated" ELSE "loaded", FALSE)

\* save_atomic(data, target_path). `io` says how far the writing gets:
\*   "mkstemp"  mkstemp raises            "write"  json.dump or close raises
\*   "replace"  Path.replace raises       "ok"     nothing raises
\* The result: the target, the temp files left behind and the value returned.
IoOutcomes == {"ok", "mkstemp", "write", "replace"}

\* tempFiles keeps the forms of the temp files left behind.
SaveAtomicInPlace(data, target, temps, io) ==
    IF io = "mkstemp" THEN [target |-> target, temps |-> temps, ok |-> FALSE]
    ELSE IF io = "write" THEN [target |-> PartialFile(data), temps |-> temps, ok |-> FALSE]
    ELSE [target |-> JsonDump(data), temps |-> temps, ok |-> io = "ok"]

SaveAtomic(data, target, temps, io) ==
    IF io = "mkstemp" THEN [target |-> target, temps |-> temps, ok |-> FALSE]
    ELSE IF io = "write"
      THEN [target |-> target, temps |-> temps \cup {"partial"}, ok |-> FALSE]
    ELSE IF io = "replace"
      THEN [target |-> target, temps |-> temps \cup {"object"}, ok |-> FALSE]
    ELSE [target |-> JsonDump(data), temps |-> temps, ok |-> TRUE]

\* save_sensor_cache(cache): the enriched copy that is validated and written.
Enrich(cache, t) ==
    LET e1 == Put(cache, "_cache_version", JStr(CACHE_VERSION))
        e2 == Put(e1, "_last_updated", JNum(t))
        e3 == IF "_created_timestamp" \in DOMAIN e2 THEN e2
              ELSE Put(e2, "_created_timestamp", JNum(t))
    IN  Put(e3, "_sensor_count", JNum(SensorCount(cache)))

\* save_sensor_cache(cache)
SaveSensorCache(cache, target, temps, t, io) ==
    LET enriched_cache == Enrich(cache, t)
    IN  IF ~ValidateCacheStructure(enriched_cache)
          THEN [target |-> target, temps |-> temps, ok |-> FALSE]
          ELSE SaveAtomic(enriched_cache, target, temps, io)

\* if stored_fingerprint != hardware_fingerprint
FingerprintDiffersAlways(stored, current) == TRUE

FingerprintDiffers(stored, current) == stored # current

\* self.sensor_cache = {'_hardware_fingerprint': self.hardware_fingerprint}
ResetSensorCacheKeepingMappings(cache, fingerprint) ==
    Put(cache, "_hardware_fingerprint", JStr(fingerprint))

ResetSensorCache(cache, fingerprint) == "_hardware_fingerprint" :> JStr(fingerprint)

\* The cache invalidate_cache_for_hardware builds for a changed fingerprint.
InvalidatedCache(stored_fingerprint, new_fingerprint, t) ==
    Put(Put(Put(CreateEmptyCache(t), "_hardware_fingerprint", JStr(new_fingerprint)),
            "_invalidated_reason", JStr("hardware_change")),
        "_previous_fingerprint", stored_fingerprint)

\* cache.get('_hardware_fingerprint', '') of the cache load_sensor_cache returns.
StoredFingerprint(file, t, readable) ==
    Get(LoadSensorCache(file, t, readable).cache, "_hardware_fingerprint", JStr(""))

(***************************************************************************)
(* SpecCache: the cache module driven by its caller. The caller's own        *)
(* changes of the dict it holds (HardwareManager.sensor_cache) are the       *)
(* assignments of hardware_manager.py lines 82, 246 and 468.                 *)
(***************************************************************************)
MaxCacheSteps == 1
MaxCacheOps == 3

SensorKeyA == "/amdcpu/0_CPU_PACKAGE_TEMP"
SensorKeyFoo == "foo"
LongId == "/amdcpu/0/temperature/2"
ShortId == "bar"
FingerprintA == "CPU:Ryzen:abc|GPU:RTX:xyz"
FingerprintB == "CPU:Ryzen:abc"

\* Dicts a cache file may hold when the program starts.
OldVersion == "_cache_version" :> JStr("1.0")
CurrentMeta ==
    ("_cache_version" :> JStr(CACHE_VERSION)) @@ ("_created_timestamp" :> JNum(0))
      @@ ("_last_updated" :> JNum(0))
InitialDicts ==
    { OldVersion @@ (SensorKeyFoo :> JStr(ShortId)),
      OldVersion @@ (SensorKeyA :> JStr(LongId)),
      SensorKeyA :> JStr(LongId),
      OldVersion @@ (SensorKeyA :> JStr(LongId)) @@ (SensorKeyFoo :> JStr(LongId))
        @@ ("_hardware_fingerprint" :> JStr(FingerprintA)) @@ ("_sensor_count" :> JNum(7)),
      OldVersion @@ (SensorKeyA :> JNum(5)),
      OldVersion @@ (SensorKeyA :> JStr(LongId)) @@ ("_created_timestamp" :> JStr("2024")),
      CurrentMeta @@ ("_sensor_count" :> JNum(1)) @@ (SensorKeyA :> JStr(LongId))
        @@ ("_hardware_fingerprint" :> JStr(FingerprintA)),
      CurrentMeta @@ (SensorKeyA :> JStr(ShortId)),
      ("_cache_version" :> JStr(CACHE_VERSION)) @@ (SensorKeyA :> JStr(LongId)),
      ("_cache_version" :> JStr(CACHE_VERSION)) @@ ("_created_timestamp" :> JNull)
        @@ ("_last_updated" :> JNum(0)) @@ (SensorKeyA :> JStr(LongId)) }

InitialFiles ==
    {NoFile, EmptyFile, GarbageFile, ListFile} \cup {ObjectFile(d) : d \in InitialDicts}

\* The manager holds a cache: load_sensor_cache has run.
Constructed == DOMAIN sensor_cache # {}

\* self.sensor_cache = load_sensor_cache()
CacheLoad ==
    /\ opCount < MaxCacheOps
    /\ opCount' = opCount + 1
    /\ \E readable \in BOOLEAN, copyOk \in BOOLEAN :
         \E r \in {LoadSensorCache(cacheFile, now, readable)} :
           /\ sensor_cache' = r.cache
           /\ backups' = IF r.backup THEN BackupCorruptedCache(cacheFile, now, copyOk)
                         ELSE backups
           /\ lastOp' = [op |-> "load", readable |-> readable, copyOk |-> copyOk,
                         path |-> r.path]
           /\ UNCHANGED <<cacheFile, tempFiles, healthVars, activeVars, saveVars, hwVars, diagVars, raceVars>>

\* self.sensor_cache[cache_key] = str(sensor.Identifier)
CachePut ==
    /\ opCount < MaxCacheOps
    /\ opCount' = opCount + 1
    /\ Constructed
    /\ \E entry \in {<<SensorKeyA, LongId>>, <<SensorKeyFoo, ShortId>>} :
         sensor_cache' = Put(sensor_cache, entry[1], JStr(entry[2]))
    /\ lastOp' = NoOp
    /\ UNCHANGED <<cacheFile, tempFiles, backups, healthVars, activeVars, saveVars, hwVars, diagVars, raceVars>>

\* self.sensor_cache = {'_hardware_fingerprint': ...}
CacheReset ==
    /\ opCount < MaxCacheOps
    /\ opCount' = opCount + 1
    /\ Constructed
    /\ \E fp \in {FingerprintB} :
         sensor_cache' = ResetSensorCache(sensor_cache, fp)
    /\ lastOp' = NoOp
    /\ UNCHANGED <<cacheFile, tempFiles, backups, healthVars, activeVars, saveVars, hwVars, diagVars, raceVars>>

\* save_sensor_cache(self.sensor_cache)
CacheSave ==
    /\ opCount < MaxCacheOps
    /\ opCount' = opCount + 1
    /\ Constructed
    /\ \E io \in IoOutcomes :
         \E r \in {SaveSensorCache(sensor_cache, cacheFile, tempFiles, now, io)} :
           /\ cacheFile' = r.target
           /\ tempFiles' = r.temps
           /\ lastOp' = [op |-> "save", ok |-> r.ok, io |-> io]
    /\ UNCHANGED <<backups, sensor_cache, healthVars, activeVars, saveVars, hwVars, diagVars, raceVars>>

\* invalidate_cache_for_hardware(hardware_fingerprint)
CacheInvalidate ==
    /\ opCount < MaxCacheOps
    /\ opCount' = opCount + 1
    /\ \E fp \in {FingerprintA, FingerprintB}, io \in IoOutcomes,
          readable \in BOOLEAN, copyOk \in BOOLEAN :
         \E l \in {LoadSensorCache(cacheFile, now, readable)} :
           LET stored_fingerprint == Get(l.cache, "_hardware_fingerprint", JStr(""))
               differs == FingerprintDiffers(stored_fingerprint, JStr(fp))
               r == IF differs
                      THEN SaveSensorCache(InvalidatedCache(stored_fingerprint, fp, now),
                                           cacheFile, tempFiles, now, io)
                      ELSE [target |-> cacheFile, temps |-> tempFiles, ok |-> FALSE]
           IN  /\ cacheFile' = r.target
               /\ tempFiles' = r.temps
               /\ backups' = IF l.backup THEN BackupCorruptedCache(cacheFile, now, copyOk)
                             ELSE backups
               /\ lastOp' = [op |-> "invalidate", fingerprint |-> fp, readable |-> readable,
                             ok |-> r.ok, io |-> io]
               /\ UNCHANGED <<sensor_cache, healthVars, activeVars, saveVars, hwVars, diagVars, raceVars>>

\* Time passes between two cache operations.
CacheClock ==
    /\ clockSteps < MaxCacheSteps
    /\ opCount < MaxCacheOps
    /\ opCount' = opCount + 1
    /\ now' = now + LongStep
    /\ clockSteps' = clockSteps + 1
    /\ lastOp' = NoOp
    /\ UNCHANGED <<sensor_health, sensor_read_count, successful_reads, failed_reads,
                   lastTick, lastData, failRun, delays, activeVars,
                   cacheFile, tempFiles, backups, sensor_cache, saveVars, hwVars, diagVars, raceVars>>

InitCache ==
    /\ InitHealth
    /\ Sequential
    /\ cpu_sensor = NoSensor
    /\ gpu_sensors = EmptyDict
    /\ storage_sensors = <<>>
    /\ cacheFile \in InitialFiles
    /\ tempFiles = {}
    /\ backups = {}
    /\ sensor_cache = EmptyDict
    /\ lastOp = NoOp
    /\ opCount = 0
    /\ SaveIdle
    /\ HwIdle

NextCache == CacheLoad \/ CachePut \/ CacheReset \/ CacheSave \/ CacheInvalidate \/ CacheClock
SpecCache == InitCache /\ [][NextCache]_vars

(***************************************************************************)
(* Claims about the cache module.                                           *)
(***************************************************************************)
\* The last operation was a load_sensor_cache that could read the file.
LoadedReadable == lastOp.op = "load" /\ lastOp.readable

\* The file holds a dict whose version is not the current one; a dict without
\* '_cache_version' counts as version "1.0".
FileVersion == Get(cacheFile.body, "_cache_version", JStr("1.0"))
FileIsOldVersion == cacheFile.form = "object" /\ FileVersion # JStr(CACHE_VERSION)

\* The cache in memory is the migrated content of the file.
HoldsMigratedFile ==
    /\ Get(sensor_cache, "_cache_version", JNull) = JStr(CACHE_VERSION)
    /\ DOMAIN SensorEntries(sensor_cache) = DOMAIN SensorEntries(cacheFile.body)
    /\ \A k \in DOMAIN SensorEntries(cacheFile.body) : sensor_cache[k] = cacheFile.body[k]
    /\ Get(sensor_cache, "_migrated_from", JNull) = FileVersion

\* The cache in memory is a freshly created empty cache.
HoldsFreshCache ==
    /\ DOMAIN sensor_cache =
         {"_cache_version", "_created_timestamp", "_last_updated", "_sensor_count"}
    /\ sensor_cache["_cache_version"] = JStr(CACHE_VERSION)
    /\ sensor_cache["_sensor_count"] = JNum(0)

\* Every non-metadata value of the file is a string of at least five
\* characters and '_created_timestamp', if the file has one, is a number.
FileEntriesAcceptable ==
    /\ \A k \in DOMAIN SensorEntries(cacheFile.body) :
          /\ cacheFile.body[k].kind = "str"
          /\ Len(cacheFile.body[k].val) >= 5
    /\ Get(cacheFile.body, "_created_timestamp", JNum(0)).kind = "num"

\* C5 as stated: whenever the file has a version other than the current one,
\* load() returns the migrated cache - version "2.0", every non-metadata entry
\* of the file preserved, _migrated_from the old version. The file
\* {"_cache_version":"1.0","foo":"bar"} refutes it.
C5_MigratedWhateverTheEntries ==
    (LoadedReadable /\ FileIsOldVersion) => HoldsMigratedFile

\* C5, amended: the file of another version is returned migrated (version
\* "2.0", entries preserved, _migrated_from the old version) provided every
\* non-metadata value is a string of at least five characters and
\* _created_timestamp, if present, is a number; otherwise load() returns a
\* fresh empty cache and no entry of the file survives.
C5_MigratedWhenEntriesAcceptable ==
    (LoadedReadable /\ FileIsOldVersion) =>
        IF FileEntriesAcceptable THEN HoldsMigratedFile ELSE HoldsFreshCache

C5_Witness ==
    /\ LoadedReadable
    /\ FileIsOldVersion
    /\ HoldsMigratedFile
    /\ SensorKeyA \in DOMAIN sensor_cache
    /\ sensor_cache["_migrated_from"] = JStr("1.0")

\* C6: after a save that returned true, a load() that follows at once returns
\* a cache with the same non-metadata entries as the cache saved, and its
\* _sensor_count is the number of those entries.
C6_SaveLoadRoundTrip ==
    (lastOp.op = "save" /\ lastOp.ok) =>
        LET loaded == LoadSensorCache(cacheFile, now, TRUE).cache
        IN  /\ SensorEntries(loaded) = SensorEntries(sensor_cache)
            /\ Get(loaded, "_sensor_count", JNull)
                 = JNum(Cardinality(DOMAIN SensorEntries(sensor_cache)))

\* A cache with an entry and a stale _sensor_count has been saved.
C6_Witness ==
    /\ lastOp.op = "save"
    /\ lastOp.ok
    /\ DOMAIN SensorEntries(sensor_cache) # {}
    /\ Get(sensor_cache, "_sensor_count", JNull)
         # JNum(Cardinality(DOMAIN SensorEntries(sensor_cache)))

\* C7: invalidate_cache_for_hardware(fp), the stored fingerprint being the
\* one of the cache load() returns: when it differs from fp and the write
\* succeeds, the file becomes a cache without non-metadata entries that holds
\* fp, the reason "hardware_change" and the previous fingerprint; when it is
\* equal, no file is written and the call returns false; so a second call with
\* the same fp right after a reset writes nothing.
C7_InvalidateForHardware ==
    [][ lastOp'.op = "invalidate" =>
          LET fp == JStr(lastOp'.fingerprint)
              stored == StoredFingerprint(cacheFile, now, lastOp'.readable)
          IN  /\ (stored # fp /\ lastOp'.io = "ok") =>
                   /\ lastOp'.ok
                   /\ cacheFile'.form = "object"
                   /\ DOMAIN SensorEntries(cacheFile'.body) = {}
                   /\ Get(cacheFile'.body, "_hardware_fingerprint", JNull) = fp
                   /\ Get(cacheFile'.body, "_invalidated_reason", JNull)
                        = JStr("hardware_change")
                   /\ Get(cacheFile'.body, "_previous_fingerprint", JNull) = stored
              /\ (stored = fp) =>
                   /\ ~lastOp'.ok
                   /\ cacheFile' = cacheFile
                   /\ tempFiles' = tempFiles
              /\ (lastOp.op = "invalidate" /\ lastOp.ok /\ lastOp'.readable
                    /\ lastOp.fingerprint = lastOp'.fingerprint) =>
                   /\ ~lastOp'.ok
                   /\ cacheFile' = cacheFile
                   /\ tempFiles' = tempFiles ]_vars

\* A call that wrote nothing because the file is the reset cache of the same
\* fingerprint, which replaced the cache of FingerprintA.
C7_Witness ==
    /\ lastOp.op = "invalidate"
    /\ ~lastOp.ok
    /\ lastOp.io = "ok"
    /\ lastOp.readable
    /\ cacheFile.form = "object"
    /\ Get(cacheFile.body, "_hardware_fingerprint", JNull) = JStr(lastOp.fingerprint)
    /\ Get(cacheFile.body, "_previous_fingerprint", JNull) = JStr(FingerprintA)

(***************************************************************************)
(* SpecSave: save_sensor_cache taken step by step, with another reader of   *)
(* CACHE_FILE running beside it. save_atomic creates a temp file in the     *)
(* directory of the target, writes the JSON text into it piece by piece,     *)
(* closes it and renames it onto the target; each step may raise, and the    *)
(* except clause returns False and leaves the temp file where it is.         *)
(***************************************************************************)
\* What a file being written holds after one more piece of json.dump's output.
NextChunk(content, data) ==
    IF content = PartialFile(data) THEN JsonDump(data) ELSE PartialFile(data)

\* One write of json.dump(data, f): f is the temp file mkstemp opened.
DumpChunkInPlace(files, data) ==
    [files EXCEPT !.target = NextChunk(files.target, data)]

DumpChunk(files, data) ==
    [files EXCEPT !.temp = NextChunk(files.temp, data)]

\* The step of save_atomic that ends the call: what it leaves and returns.
SaveReturns(ok, io) ==
    /\ savePc' = "idle"
    /\ saveTemp' = NoFile
    /\ tempFiles' = IF saveTemp.form = "missing" \/ ok THEN tempFiles
                    ELSE tempFiles \cup {IF saveTemp.form = "object" THEN "object"
                                         ELSE "partial"}
    /\ lastOp' = [op |-> "save", ok |-> ok, io |-> io, before |-> lastOp.before]

\* save_sensor_cache up to the call of save_atomic.
SaveBegin ==
    /\ savePc = "idle"
    /\ Constructed
    /\ opCount < MaxCacheOps
    /\ opCount' = opCount + 1
    /\ observed' = NoRead
    /\ \E enriched_cache \in {Enrich(sensor_cache, now)} :
         IF ValidateCacheStructure(enriched_cache)
           THEN /\ savePc' = "mkstemp"
                /\ saveData' = enriched_cache
                /\ lastOp' = [op |-> "saving", before |-> cacheFile]
           ELSE /\ lastOp' = [op |-> "save", ok |-> FALSE, io |-> "invalid",
                              before |-> cacheFile]
                /\ UNCHANGED <<savePc, saveData>>
    /\ UNCHANGED <<cacheFile, tempFiles, backups, sensor_cache, saveTemp,
                   healthVars, activeVars, hwVars, diagVars, raceVars>>

\* fd, temp_path_str = tempfile.mkstemp(dir=target_path.parent, prefix=".tmp")
SaveMkstemp ==
    /\ savePc = "mkstemp"
    /\ \E ok \in BOOLEAN :
         IF ok THEN /\ savePc' = "dump"
                    /\ saveTemp' = EmptyFile
                    /\ UNCHANGED <<tempFiles, lastOp>>
               ELSE SaveReturns(FALSE, "mkstemp")
    /\ UNCHANGED <<cacheFile, backups, sensor_cache, opCount, saveData, observed,
                   healthVars, activeVars, hwVars, diagVars, raceVars>>

\* json.dump(data, f, ...) writes the first pieces of the text.
SaveDump ==
    /\ savePc = "dump"
    /\ \E ok \in BOOLEAN :
         IF ok
           THEN \E files \in {DumpChunk([temp |-> saveTemp, target |-> cacheFile], saveData)} :
                   /\ saveTemp' = files.temp
                   /\ cacheFile' = files.target
                   /\ savePc' = "close"
                   /\ UNCHANGED <<tempFiles, lastOp>>
           ELSE SaveReturns(FALSE, "write") /\ UNCHANGED cacheFile
    /\ UNCHANGED <<backups, sensor_cache, opCount, saveData, observed,
                   healthVars, activeVars, hwVars, diagVars, raceVars>>

\* json.dump writes the rest of the text and the with block closes the file.
SaveClose ==
    /\ savePc = "close"
    /\ \E ok \in BOOLEAN :
         IF ok
           THEN \E files \in {DumpChunk([temp |-> saveTemp, target |-> cacheFile], saveData)} :
                   /\ saveTemp' = files.temp
                   /\ cacheFile' = files.target
                   /\ savePc' = "replace"
                   /\ UNCHANGED <<tempFiles, lastOp>>
           ELSE SaveReturns(FALSE, "write") /\ UNCHANGED cacheFile
    /\ UNCHANGED <<backups, sensor_cache, opCount, saveData, observed,
                   healthVars, activeVars, hwVars, diagVars, raceVars>>

\* temp_path.replace(target_path)
SaveReplace ==
    /\ savePc = "replace"
    /\ \E ok \in BOOLEAN :
         IF ok THEN SaveReturns(TRUE, "ok") /\ cacheFile' = saveTemp
               ELSE SaveReturns(FALSE, "replace") /\ UNCHANGED cacheFile
    /\ UNCHANGED <<backups, sensor_cache, opCount, saveData, observed,
                   healthVars, activeVars, hwVars, diagVars, raceVars>>

\* Another reader opens CACHE_FILE and reads it.
ReadCacheFile ==
    /\ observed' = cacheFile
    /\ UNCHANGED <<healthVars, activeVars, cacheVars, savePc, saveData, saveTemp, hwVars, diagVars, raceVars>>

\* The control thread runs one call at a time.
LoadBetweenSaves == savePc = "idle" /\ CacheLoad
PutBetweenSaves == savePc = "idle" /\ CachePut

InitSave == InitCache

NextSave ==
    \/ LoadBetweenSaves
    \/ PutBetweenSaves
    \/ SaveBegin
    \/ SaveMkstemp
    \/ SaveDump
    \/ SaveClose
    \/ SaveReplace
    \/ ReadCacheFile
SpecSave == InitSave /\ [][NextSave]_vars

\* C10: while save writes and after it has returned, failed at whichever step
\* or not, the cache file under its final path holds the complete content from
\* before the save or the complete new content, never a part of it, and that
\* is all a reader running beside the save reads.
C10_AtomicSave ==
    /\ cacheFile.form # "partial"
    /\ observed.form # "partial"
    /\ lastOp.op = "saving" =>
         /\ cacheFile = lastOp.before
         /\ observed \in {NoRead, lastOp.before}
    /\ (lastOp.op = "save" /\ lastOp.io # "invalid") =>
         /\ cacheFile = IF lastOp.ok THEN JsonDump(saveData) ELSE lastOp.before
         /\ observed \in {NoRead, lastOp.before, JsonDump(saveData)}
         /\ observed = JsonDump(saveData) => lastOp.ok \/ lastOp.before = JsonDump(saveData)

\* A write failed half-way and left a partly written temp file, and the reader
\* running beside it read the complete content from before the save, which
\* is not what the save was writing.
C10_Witness ==
    /\ lastOp.op = "save"
    /\ lastOp.io = "write"
    /\ "partial" \in tempFiles
    /\ observed = lastOp.before
    /\ observed.form = "object"
    /\ observed # JsonDump(saveData)

(***************************************************************************)
(* Python strings: case folding, substring test and the order sorted() uses. *)
(***************************************************************************)
UpperCase == "ABCDEFGHIJKLMNOPQRSTUVWXYZ"
LowerCase == "abcdefghijklmnopqrstuvwxyz"
\* The characters of the model's strings in code point order.
CodeOrder == " -/0123456789:ABCDEFGHIJKLMNOPQRSTUVWXYZ_abcdefghijklmnopqrstuvwxyz|"

CharAt(s, i) == SubSeq(s, i, i)
CharRank(c) == CHOOSE i \in 1..Len(CodeOrder) : CharAt(CodeOrder, i) = c

\* The lower-case letter of every upper-case letter.
LowerOf ==
    [c \in {CharAt(UpperCase, i) : i \in 1..Len(UpperCase)} |->
       CharAt(LowerCase, CHOOSE i \in 1..Len(UpperCase) : CharAt(UpperCase, i) = c)]
LowerChar(c) == IF c \in DOMAIN LowerOf THEN LowerOf[c] ELSE c

\* s.lower()
RECURSIVE Lower(_)
Lower(s) ==
    IF Len(s) = 0 THEN ""
    ELSE IF Len(s) = 1 THEN LowerChar(s)
    ELSE Lower(SubSeq(s, 1, Len(s) \div 2)) \o Lower(SubSeq(s, Len(s) \div 2 + 1, Len(s)))

\* sub in s
Contains(s, sub) ==
    \E i \in 1..(Len(s) - Len(sub) + 1) : SubSeq(s, i, i + Len(sub) - 1) = sub

\* a < b for two strings
RECURSIVE StrLess(_, _)
StrLess(a, b) ==
    IF Len(b) = 0 THEN FALSE
    ELSE IF Len(a) = 0 THEN TRUE
    ELSE IF CharAt(a, 1) = CharAt(b, 1)
      THEN StrLess(SubSeq(a, 2, Len(a)), SubSeq(b, 2, Len(b)))
    ELSE CharRank(CharAt(a, 1)) < CharRank(CharAt(b, 1))

\* One element put into a sorted list, after the elements not greater than it.
RECURSIVE Insert(_, _)
Insert(sorted, x) ==
    IF Len(sorted) = 0 THEN <<x>>
    ELSE IF StrLess(x, Head(sorted)) THEN <<x>> \o sorted
    ELSE <<Head(sorted)>> \o Insert(Tail(sorted), x)

\* sorted(parts)
Unsorted(parts) == parts

RECURSIVE Sorted(_)
Sorted(parts) ==
    IF Len(parts) = 0 THEN <<>>
    ELSE Insert(Sorted(SubSeq(parts, 1, Len(parts) - 1)), parts[Len(parts)])

\* sep.join(parts)
RECURSIVE Join(_, _)
Join(sep, parts) ==
    IF Len(parts) = 0 THEN ""
    ELSE IF Len(parts) = 1 THEN parts[1]
    ELSE parts[1] \o sep \o Join(sep, Tail(parts))

(***************************************************************************)
(* HardwareManager: construction (core/hardware_manager.py).                 *)
(***************************************************************************)
\* f"{hw.HardwareType}:{hw.Name}:{hw.Identifier}"
HwInfo(hw) == hw.kind \o ":" \o hw.name \o ":" \o hw.id

RECURSIVE FingerprintParts(_)
FingerprintParts(nodes) ==
    IF Len(nodes) = 0 THEN <<>>
    ELSE <<HwInfo(Head(nodes))>> \o FingerprintParts(Tail(nodes))

\* _create_hardware_fingerprint
CreateHardwareFingerprint(nodes) == Join("|", Sorted(FingerprintParts(nodes)))

\* any(indicator in hw_type_lower for indicator in indicators)
AnyIndicator(indicators, hw_type_lower) ==
    \E indicator \in indicators : Contains(hw_type_lower, indicator)

IsCpuHardware(hw_type_lower) ==
    AnyIndicator({"cpu", "processor", "amd", "intel"}, hw_type_lower)
IsGpuHardware(hw_type_lower) ==
    AnyIndicator({"gpu", "graphics", "nvidia", "amd", "radeon", "geforce", "quadro"},
                 hw_type_lower)
IsStorageHardware(hw_type_lower) ==
    AnyIndicator({"storage", "hdd", "ssd", "nvme", "m2", "disk"}, hw_type_lower)

\* name.replace(' ', '_')
RECURSIVE ReplaceBlanks(_)
ReplaceBlanks(name) ==
    IF Len(name) = 0 THEN ""
    ELSE (IF CharAt(name, 1) = " " THEN "_" ELSE CharAt(name, 1))
           \o ReplaceBlanks(SubSeq(name, 2, Len(name)))

\* d[key] = sensor on a dict kept as the list of its items in insertion order
ItemPut(items, key, sensor) ==
    IF \E i \in 1..Len(items) : items[i].key = key
      THEN [i \in 1..Len(items) |->
              IF items[i].key = key THEN [key |-> key, sensor |-> sensor] ELSE items[i]]
      ELSE Append(items, [key |-> key, sensor |-> sensor])

\* _process_storage_with_diagnostics: the storage sensors after one node
RECURSIVE ProcessStorage(_, _, _)
ProcessStorage(items, storage_hw, sensors) ==
    IF Len(sensors) = 0 THEN items
    ELSE LET sensor == Head(sensors)
             unique_key == ReplaceBlanks(storage_hw.name) \o "_" \o sensor.id
         IN  ProcessStorage(IF sensor.type = "Temperature"
                              THEN ItemPut(items, unique_key, sensor.id) ELSE items,
                            storage_hw, Tail(sensors))

\* _detect_hardware_with_diagnostics over `nodes`, from the lists in `d`
RECURSIVE DetectHardware(_, _)
DetectHardware(d, nodes) ==
    IF Len(nodes) = 0 THEN d
    ELSE LET hw == Head(nodes)
             hw_type_lower == Lower(hw.kind)
             after ==
               IF IsCpuHardware(hw_type_lower)
                 THEN [d EXCEPT !.cpus = Append(d.cpus, hw.id)]
               ELSE IF IsGpuHardware(hw_type_lower)
                 THEN [d EXCEPT !.gpus = Append(d.gpus, hw.id)]
               ELSE IF IsStorageHardware(hw_type_lower)
                 THEN [d EXCEPT !.storage = ProcessStorage(d.storage, hw, hw.sensors)]
               ELSE d
         IN  DetectHardware(after, Tail(nodes))

\* The machine's devices.
NodeCpu == [kind |-> "CPU", name |-> "Ryzen", id |-> "abc", sensors |-> <<>>]
NodeGpu == [kind |-> "GPU", name |-> "RTX", id |-> "xyz", sensors |-> <<>>]
NodeStorage ==
    [kind |-> "Storage", name |-> "Samsung SSD", id |-> "/nvme/0",
     sensors |-> << [type |-> "Temperature", name |-> "Temperature",
                     id |-> "/nvme/0/temperature/0"],
                    [type |-> "Load", name |-> "Used Space", id |-> "/nvme/0/load/0"] >>]
Nodes == {NodeCpu, NodeGpu, NodeStorage}

\* Every order in which computer.Hardware may list some of the devices.
Injective(f) == \A i, j \in DOMAIN f : f[i] = f[j] => i = j
HardwareOrders ==
    UNION { {h \in [1..n -> Nodes] : Injective(h)} : n \in 0..Cardinality(Nodes) }

\* The lists of `nodes` in every order.
Reorderings(nodes) ==
    { [i \in 1..Len(nodes) |-> nodes[p[i]]] :
        p \in {q \in [1..Len(nodes) -> 1..Len(nodes)] : Injective(q)} }

MaxHwOps == 4

\* HardwareManager.__init__: load_sensor_cache, then _initialize_lhm when
\* LibreHardwareMonitor is there. `raisesAt` is the node whose Update() raises
\* during detection (0: none does); the except clause of _initialize_lhm ends
\* the initialization there.
Construct ==
    /\ ~Constructed
    /\ opCount < MaxHwOps
    /\ opCount' = opCount + 1
    /\ \E current \in {CreateHardwareFingerprint(hardware)},
          readable \in BOOLEAN, copyOk \in BOOLEAN, lhm \in {"ok", "no_support"},
          raisesAt \in 0..Len(hardware), io \in IoOutcomes :
         \E l \in {LoadSensorCache(cacheFile, now, readable)},
            seen \in {IF lhm # "ok" THEN <<>>
                      ELSE IF raisesAt = 0 THEN hardware
                      ELSE SubSeq(hardware, 1, raisesAt - 1)} :
           \E d \in {DetectHardware([cpus |-> <<>>, gpus |-> <<>>, storage |-> <<>>], seen)} :
             LET initializes == lhm = "ok"
                 fingerprint == IF initializes THEN current ELSE ""
                 cached_fingerprint == Get(l.cache, "_hardware_fingerprint", JStr(""))
                 resets == initializes
                             /\ FingerprintDiffers(cached_fingerprint, JStr(fingerprint))
                 cache == IF resets THEN ResetSensorCache(l.cache, fingerprint) ELSE l.cache
                 saves == resets /\ raisesAt = 0
                 r == IF saves THEN SaveSensorCache(cache, cacheFile, tempFiles, now, io)
                      ELSE [target |-> cacheFile, temps |-> tempFiles, ok |-> FALSE]
             IN  /\ (raisesAt # 0 => initializes)
                 /\ (io # "ok" => saves)
                 /\ sensor_cache' = cache
                 /\ cache_updated' = resets
                 /\ hardware_fingerprint' = fingerprint
                 /\ cpus' = d.cpus
                 /\ gpus' = d.gpus
                 /\ computer' = initializes
                 /\ storage_sensors' = d.storage
                 /\ cpu_sensor' = NoSensor
                 /\ gpu_sensors' = EmptyDict
                 /\ cacheFile' = r.target
                 /\ tempFiles' = r.temps
                 /\ backups' = IF l.backup THEN BackupCorruptedCache(cacheFile, now, copyOk)
                               ELSE backups
                 /\ lastOp' = [op |-> "construct", lhm |-> lhm, raisesAt |-> raisesAt,
                               readable |-> readable, io |-> io, ok |-> r.ok,
                               stored |-> cached_fingerprint,
                               mappings |-> DOMAIN SensorEntries(l.cache)]
    /\ failed_sensors' = EmptyDict
    /\ UNCHANGED <<healthVars, saveVars, hardware, raceVars>>

\* The program ends; the files stay.
Exit ==
    /\ Constructed
    /\ opCount < MaxHwOps
    /\ opCount' = opCount + 1
    /\ sensor_cache' = EmptyDict
    /\ cache_updated' = FALSE
    /\ hardware_fingerprint' = ""
    /\ cpus' = <<>>
    /\ gpus' = <<>>
    /\ computer' = FALSE
    /\ storage_sensors' = <<>>
    /\ lastOp' = [op |-> "exit"]
    /\ UNCHANGED <<healthVars, saveVars, diagVars, raceVars, hardware, cpu_sensor, gpu_sensors,
                   cacheFile, tempFiles, backups>>

\* While the program is down devices are added or removed, or the next start
\* lists the same devices in another order.
ChangeHardware ==
    /\ ~Constructed
    /\ opCount < MaxHwOps
    /\ opCount' = opCount + 1
    /\ hardware' \in HardwareOrders \ {hardware}
    /\ lastOp' = [op |-> "plug"]
    /\ UNCHANGED <<healthVars, activeVars, saveVars, diagVars, raceVars, cacheFile,
                   tempFiles, backups,
                   sensor_cache, hardware_fingerprint, cache_updated, cpus, gpus,
                   computer>>

\* The cache files a start of the program may find.
HwInitialDicts ==
    { CurrentMeta @@ ("_sensor_count" :> JNum(1)) @@ (SensorKeyA :> JStr(LongId))
        @@ ("_hardware_fingerprint" :> JStr(FingerprintA)),
      CurrentMeta @@ ("_sensor_count" :> JNum(1)) @@ (SensorKeyA :> JStr(LongId)),
      OldVersion @@ (SensorKeyA :> JStr(LongId))
        @@ ("_hardware_fingerprint" :> JStr(FingerprintA)) }
HwInitialFiles == {NoFile, GarbageFile} \cup {ObjectFile(d) : d \in HwInitialDicts}

InitHw ==
    /\ InitHealth
    /\ Sequential
    /\ SaveIdle
    /\ cpu_sensor = NoSensor
    /\ gpu_sensors = EmptyDict
    /\ storage_sensors = <<>>
    /\ cacheFile \in HwInitialFiles
    /\ tempFiles = {}
    /\ backups = {}
    /\ sensor_cache = EmptyDict
    /\ lastOp = NoOp
    /\ opCount = 0
    /\ hardware \in HardwareOrders
    /\ hardware_fingerprint = ""
    /\ cache_updated = FALSE
    /\ cpus = <<>>
    /\ gpus = <<>>
    /\ computer = FALSE

NextHw == Construct \/ Exit \/ ChangeHardware
SpecHw == InitHw /\ [][NextHw]_vars

\* The last step constructed the HardwareManager and _initialize_lhm got as
\* far as the fingerprint.
Initialized == lastOp.op = "construct" /\ lastOp.lhm = "ok"

\* C8: at initialization, when the fingerprint of the present top-level nodes
\* differs from the one in the loaded cache, the cache in memory becomes the
\* new fingerprint alone - every mapping loaded is gone, and initialization
\* resolves no sensor before that - and, unless detection or the write fails,
\* the file holds the reset cache; when the two are equal the cache in memory
\* is the loaded one and no file is written.
C8_MismatchResetsCache ==
    [][ (lastOp'.op = "construct" /\ lastOp'.lhm = "ok") =>
          LET loaded == LoadSensorCache(cacheFile, now, lastOp'.readable).cache
              stored == Get(loaded, "_hardware_fingerprint", JStr(""))
              current == JStr(CreateHardwareFingerprint(hardware))
          IN  IF stored # current
                THEN /\ sensor_cache' = ("_hardware_fingerprint" :> current)
                     /\ (lastOp'.raisesAt = 0 /\ lastOp'.io = "ok") =>
                          /\ cacheFile'.form = "object"
                          /\ DOMAIN SensorEntries(cacheFile'.body) = {}
                          /\ Get(cacheFile'.body, "_hardware_fingerprint", JNull) = current
                ELSE /\ sensor_cache' = loaded
                     /\ cacheFile' = cacheFile
                     /\ tempFiles' = tempFiles ]_vars

\* A start that found a cached mapping under another fingerprint than the
\* present devices give, dropped it and wrote the reset cache.
C8_Witness ==
    /\ Initialized
    /\ lastOp.mappings # {}
    /\ lastOp.stored = JStr(FingerprintA)
    /\ hardware # <<>>
    /\ cache_updated
    /\ lastOp.ok
    /\ DOMAIN SensorEntries(sensor_cache) = {}

\* C9: the fingerprint is the same string for every order of the same
\* top-level nodes, so a start that finds the fingerprint of these nodes in
\* the cache, whatever the order they were listed in when it was stored, does
\* not reset the cache.
C9_FingerprintOrderIndependent ==
    Initialized =>
        /\ \A p \in Reorderings(hardware) :
              CreateHardwareFingerprint(p) = hardware_fingerprint
        /\ (\E p \in Reorderings(hardware) :
              lastOp.stored = JStr(Join("|", Sorted(FingerprintParts(p)))))
             => /\ ~cache_updated
                /\ DOMAIN SensorEntries(sensor_cache) = lastOp.mappings

\* A start that lists the devices in another order than the stored fingerprint
\* names them and keeps the cached mapping.
C9_Witness ==
    /\ Initialized
    /\ Len(hardware) >= 2
    /\ FingerprintParts(hardware) # Sorted(FingerprintParts(hardware))
    /\ lastOp.stored = JStr(hardware_fingerprint)
    /\ lastOp.mappings # {}
    /\ ~cache_updated
    /\ SensorKeyA \in DOMAIN sensor_cache

(***************************************************************************)
(* Claims about failures of the cache module.                               *)
(***************************************************************************)
\* C11: a save that fails - the enriched cache does not validate, or mkstemp,
\* the write or the rename raises - returns false, leaves the cache in memory
\* with the keys and values it had and leaves the cache file as it was.
C11_FailedSaveChangesNothing ==
    [][ (lastOp'.op = "save"
           /\ (lastOp'.io # "ok" \/ ~ValidateCacheStructure(Enrich(sensor_cache, now)))) =>
          /\ ~lastOp'.ok
          /\ DOMAIN sensor_cache' = DOMAIN sensor_cache
          /\ \A k \in DOMAIN sensor_cache : Get(sensor_cache', k, JNull) = sensor_cache[k]
          /\ cacheFile' = cacheFile ]_vars

\* A write that failed on a cache with a mapping while a cache file existed.
C11_Witness ==
    /\ lastOp.op = "save"
    /\ lastOp.io = "write"
    /\ ~lastOp.ok
    /\ "partial" \in tempFiles
    /\ cacheFile.form = "object"
    /\ SensorKeyA \in DOMAIN sensor_cache

\* The file holds a dict that does not validate once migrated: a non-metadata
\* value that is no string of five characters or more, or, in a file of the
\* current version, a required metadata key that is missing.
FileFailsValidation ==
    /\ cacheFile.form = "object"
    /\ \/ \E k \in DOMAIN SensorEntries(cacheFile.body) :
             cacheFile.body[k].kind # "str" \/ Len(cacheFile.body[k].val) < 5
       \/ /\ FileVersion = JStr(CACHE_VERSION)
          /\ ~({"_cache_version", "_created_timestamp", "_last_updated"}
                 \subseteq DOMAIN cacheFile.body)

\* C12: load() always returns a cache, and when the file is missing, empty,
\* not a JSON object, not JSON at all or fails validation, the cache returned
\* is a fresh empty one: current version, the three required metadata keys
\* stamped now, _sensor_count 0 and no other key.
C12_LoadFallsBackToEmptyCache ==
    lastOp.op = "load" =>
        /\ {"_cache_version", "_created_timestamp", "_last_updated"}
             \subseteq DOMAIN sensor_cache
        /\ (cacheFile.form \in {"missing", "empty", "list", "garbage"} \/ FileFailsValidation)
             => /\ HoldsFreshCache
                /\ sensor_cache["_created_timestamp"] = JNum(now)
                /\ sensor_cache["_last_updated"] = JNum(now)

\* A load of a file whose dict fails validation.
C12_Witness ==
    /\ lastOp.op = "load"
    /\ lastOp.readable
    /\ FileFailsValidation
    /\ FileVersion = JStr(CACHE_VERSION)
    /\ HoldsFreshCache

\* The file exists, can be read and copied, and load() gives a fresh cache in
\* its place because its content does not parse, is no object or fails
\* validation.
FileDiscarded ==
    /\ lastOp.op = "load"
    /\ lastOp.readable
    /\ lastOp.copyOk
    /\ (cacheFile.form \in {"garbage", "list"} \/ FileFailsValidation)

\* C13 as stated: whenever load() discards the content of an existing file
\* because it does not parse, is no object or fails validation, a backup copy
\* of the file exists. A file holding a JSON list, or a dict with a value
\* shorter than five characters, refutes it.
C13_BackupWheneverDiscarded ==
    FileDiscarded => \E b \in backups : b.content = cacheFile

\* C13, amended: load() copies the file to a backup named by the time exactly
\* when json.loads raises on its content or another unexpected error arises
\* while loading (the file cannot be read, _created_timestamp is no number),
\* and the copy succeeds; a file that is empty, holds JSON that is no object,
\* or fails validation is discarded without a backup.
C13_BackupOnParseFailureOnly ==
    [][ lastOp'.op = "load" =>
          LET raises == /\ cacheFile.form # "missing"
                        /\ \/ ~lastOp'.readable
                           \/ cacheFile.form = "garbage"
                           \/ lastOp'.path = "error"
          IN  backups' = IF raises /\ lastOp'.copyOk
                           THEN backups \cup {[at |-> now, content |-> cacheFile]}
                           ELSE backups ]_vars

\* A file that does not parse has been copied to a backup and replaced by a
\* fresh cache in memory.
C13_Witness ==
    /\ lastOp.op = "load"
    /\ lastOp.readable
    /\ cacheFile = GarbageFile
    /\ [at |-> now, content |-> GarbageFile] \in backups
    /\ HoldsFreshCache

(***************************************************************************)
(* The tree search for a metric's sensor (core/sensor_mapping.py).          *)
(***************************************************************************)
\* Scores are kept as fractions, so that 0.3, 0.6, 1.0 and 1.2 are exact.
Fraction(n, d) == [num |-> n, den |-> d]
ScoreGreater(a, b) == a.num * b.den > b.num * a.den
PlusTenth(a) == Fraction(10 * a.num + a.den, 10 * a.den)

\* SENSOR_MAP; hardware_types, a key find_sensor never reads, is left out.
SENSOR_MAP ==
    ("CPU_PACKAGE_TEMP" :>
       [search_terms |-> <<"package", "paket", "gehäuse", "cpu package", "core package", "tctl",
                           "tdie", "core (tctl)", "core (tdie)", "core (tctl/tdie)",
                           "cpu (tctl)", "cpu (tdie)", "amd cpu", "ryzen", "cpu temp",
                           "cpu temperature", "processor", "prozessor", "core temp",
                           "core temperature", "cpu die", "die temp">>,
        exclude_terms |-> <<"core 0", "core 1", "core 2", "core 3", "core 4", "core 5", "core 6",
                           "core 7">>,
        sensor_type |-> "Temperature",
        priority_terms |-> <<"package", "tctl", "tdie">>]) @@
    ("GPU_CORE_TEMP" :>
       [search_terms |-> <<"gpu core", "gpu temperature", "core temp", "gpu temp", "gpu-kern",
                           "graphics temperature", "nvidia", "gpu", "radeon", "amd gpu",
                           "graphics core", "gpu die", "temperature", "temp", "core">>,
        exclude_terms |-> <<"junction", "hotspot", "memory", "mem">>,
        sensor_type |-> "Temperature",
        priority_terms |-> <<"gpu core", "gpu temp", "gpu">>]) @@
    ("GPU_HOTSPOT_TEMP" :>
       [search_terms |-> <<"hot spot", "hotspot", "junction", "verbindungstemperatur",
                           "gpu junction", "tj-max", "tjunction", "gpu hotspot">>,
        exclude_terms |-> <<>>,
        sensor_type |-> "Temperature",
        priority_terms |-> <<"hotspot", "junction">>]) @@
    ("GPU_MEMORY_TEMP" :>
       [search_terms |-> <<"memory junction", "memory temp", "mem junction", "mem temp",
                           "speicherverbindung", "vram temp", "gpu memory",
                           "memory temperature", "mem junction temp", "memory tj">>,
        exclude_terms |-> <<>>,
        sensor_type |-> "Temperature",
        priority_terms |-> <<"memory junction", "mem junction", "memory temp">>]) @@
    ("GPU_CORE_CLOCK" :>
       [search_terms |-> <<"gpu core", "core clock", "gpu clock", "gpu-kerntakt", "kerntakt",
                           "graphics clock", "base clock", "gpu speed", "core speed",
                           "shader clock", "cuda clock">>,
        exclude_terms |-> <<"memory", "mem", "vram">>,
        sensor_type |-> "Clock",
        priority_terms |-> <<"gpu core", "core clock", "gpu clock">>]) @@
    ("GPU_MEMORY_CLOCK" :>
       [search_terms |-> <<"gpu memory", "memory clock", "mem clock", "speichertakt",
                           "vram clock", "memory speed", "mem speed", "effective memory clock">>,
        exclude_terms |-> <<>>,
        sensor_type |-> "Clock",
        priority_terms |-> <<"memory clock", "mem clock", "gpu memory">>]) @@
    ("GPU_POWER" :>
       [search_terms |-> <<"gpu package", "gpu power", "power", "gpu-leistung", "leistung",
                           "total graphics power", "board power", "chip power", "ppt",
                           "power consumption", "watt", "w">>,
        exclude_terms |-> <<>>,
        sensor_type |-> "Power",
        priority_terms |-> <<"gpu power", "power", "gpu package">>]) @@
    ("VRAM_USED" :>
       [search_terms |-> <<"gpu memory used", "memory used", "vram belegt",
                           "genutzter speicher", "dedicated memory used",
                           "gpu dedicated memory used", "video memory used">>,
        exclude_terms |-> <<>>,
        sensor_type |-> "SmallData",
        priority_terms |-> <<"memory used", "gpu memory used">>]) @@
    ("VRAM_TOTAL" :>
       [search_terms |-> <<"gpu memory total", "memory total", "vram gesamt", "gesamtspeicher",
                           "dedicated memory total", "gpu dedicated memory total",
                           "video memory total">>,
        exclude_terms |-> <<>>,
        sensor_type |-> "SmallData",
        priority_terms |-> <<"memory total", "gpu memory total">>]) @@
    ("STORAGE_TEMP" :>
       [search_terms |-> <<"temperature", "temperatur", "temp">>,
        exclude_terms |-> <<>>,
        sensor_type |-> "Temperature",
        priority_terms |-> <<>>])

\* The greatest and the least number of a set of numbers.
MaxOf(S) == CHOOSE x \in S : \A y \in S : y <= x
MinOf(S) == CHOOSE x \in S : \A y \in S : x <= y

\* a[i..i+k-1] = b[j..j+k-1]
SameBlock(a, i, b, j, k) == SubSeq(a, i, i + k - 1) = SubSeq(b, j, j + k - 1)

\* SequenceMatcher.find_longest_match without junk: the longest block
\* a[i..i+size-1] = b[j..j+size-1] (size 0 if there is none); of the longest
\* ones the one that starts earliest in a, and of those the one that starts
\* earliest in b.
BlockFrom(a, b, k, i) ==
    [i |-> i, j |-> MinOf({j \in 1..(Len(b) - k + 1) : SameBlock(a, i, b, j, k)}), size |-> k]
BlockOfSize(a, b, k) ==
    IF k = 0 THEN [i |-> 1, j |-> 1, size |-> 0]
    ELSE BlockFrom(a, b, k,
                   MinOf({i \in 1..(Len(a) - k + 1) :
                            \E j \in 1..(Len(b) - k + 1) : SameBlock(a, i, b, j, k)}))
LongestMatch(a, b) ==
    BlockOfSize(a, b,
                MaxOf({0} \cup {k \in 1..Min(Len(a), Len(b)) :
                                  \E i \in 1..(Len(a) - k + 1), j \in 1..(Len(b) - k + 1) :
                                    SameBlock(a, i, b, j, k)}))

\* The sum of the sizes of SequenceMatcher(None, a, b).get_matching_blocks():
\* the longest match m, then the same to its left and to its right.
RECURSIVE MatchingBlocks(_, _)
AroundMatch(a, b, m) ==
    IF m.size = 0 THEN 0
    ELSE m.size
           + MatchingBlocks(SubSeq(a, 1, m.i - 1), SubSeq(b, 1, m.j - 1))
           + MatchingBlocks(SubSeq(a, m.i + m.size, Len(a)), SubSeq(b, m.j + m.size, Len(b)))
MatchingBlocks(a, b) == AroundMatch(a, b, LongestMatch(a, b))

\* similarity_score(a, b): SequenceMatcher(None, a.lower(), b.lower()).ratio(),
\* twice the matching characters over the length of both strings
Ratio2(a, b) == Fraction(2 * MatchingBlocks(a, b), Len(a) + Len(b))
\* SensorType and Name of the sensors of the trees find_sensor is checked on.
SearchKinds ==
    { <<"Temperature", "GPU Core">>, <<"Temperature", "GPU Temperature">>,
      <<"Temperature", "Core">>, <<"Temperature", "Die">>, <<"Temperature", "D3D">>,
      <<"Temperature", "Tmp">>, <<"Temperature", "GPU Memory Junction">>,
      <<"Temperature", "Temperature">>, <<"Clock", "GPU Core">> }

\* SensorType and Name of every sensor of the model.
SensorKinds ==
    SearchKinds \cup { <<"Temperature", "Core (Tctl/Tdie)">>, <<"Temperature", "Core 0">>,
                       <<"Temperature", "CPU Package">> }

\* The ratio of every lower-cased search term with every lower-cased sensor
\* name of the model, computed once.
KnownTerms ==
    UNION { {Lower(SENSOR_MAP[m].search_terms[i]) : i \in 1..Len(SENSOR_MAP[m].search_terms)} :
              m \in DOMAIN SENSOR_MAP }
KnownNames == {Lower(k[2]) : k \in SensorKinds}
Similarities == [p \in KnownTerms \X KnownNames |-> Ratio2(p[1], p[2])]
RatioOfLower(a, b) ==
    IF <<a, b>> \in DOMAIN Similarities THEN Similarities[<<a, b>>] ELSE Ratio2(a, b)
SimilarityScore(a, b) == RatioOfLower(Lower(a), Lower(b))

\* x in list
InList(x, list) == \E i \in 1..Len(list) : list[i] = x

\* any(exclude_term.lower() in sensor_name for exclude_term in exclude_terms)
IsExcludedNever(sensor_name, exclude_terms) == FALSE

IsExcluded(sensor_name, exclude_terms) ==
    \E i \in 1..Len(exclude_terms) : Contains(sensor_name, Lower(exclude_terms[i]))

\* The else branch of the loop over the terms: `score` is the ratio of a term
\* that is not in the name, `prio` says whether it is a priority term.
FuzzyTermBonusAlways(score, prio) ==
    IF prio THEN [score |-> PlusTenth(score), priority |-> TRUE]
    ELSE [score |-> score, priority |-> FALSE]

FuzzyTerm(score, prio) ==
    IF ScoreGreater(score, Fraction(6, 10)) /\ prio
      THEN [score |-> PlusTenth(score), priority |-> TRUE]
      ELSE [score |-> score, priority |-> FALSE]

\* The score of one term and whether the term sets is_priority.
TermScore(term, sensor_name, priority_terms) ==
    IF Contains(sensor_name, Lower(term))
      THEN IF InList(term, priority_terms)
             THEN [score |-> Fraction(6, 5), priority |-> TRUE]
             ELSE [score |-> Fraction(1, 1), priority |-> FALSE]
      ELSE FuzzyTerm(SimilarityScore(Lower(term), sensor_name), InList(term, priority_terms))

\* What the body of the loop over the terms computes for each term: t.score
\* is `score`, t.priority says whether the term sets is_priority.
Scored(terms, sensor_name, priority_terms) ==
    { [index |-> i, term |-> terms[i],
       t |-> TermScore(terms[i], sensor_name, priority_terms)] : i \in 1..Len(terms) }

\* `if score > best_score` replaces best_score and matched_term only by a
\* strictly greater score: the term that stands after the loop is the first
\* one whose score no other term exceeds.
TopTermOf(scored) ==
    CHOOSE w \in scored :
      \A o \in scored : /\ ~ScoreGreater(o.t.score, w.t.score)
                        /\ (o.index < w.index => ScoreGreater(w.t.score, o.t.score))

\* best_score, matched_term and is_priority after the loop: best_score starts
\* at 0.0 and matched_term at "", and is_priority stays set once any term has
\* set it, whichever term ends up as matched_term.
AfterTerms(scored, w) ==
    IF ScoreGreater(w.t.score, Fraction(0, 1))
      THEN [best_score |-> w.t.score, matched_term |-> w.term,
            is_priority |-> \E o \in scored : o.t.priority]
      ELSE [best_score |-> Fraction(0, 1), matched_term |-> "",
            is_priority |-> \E o \in scored : o.t.priority]

\* for term in search_terms: ...
BestOfScored(scored) ==
    IF scored = {}
      THEN [best_score |-> Fraction(0, 1), matched_term |-> "", is_priority |-> FALSE]
      ELSE AfterTerms(scored, TopTermOf(scored))
ScoreTerms(terms, sensor_name, priority_terms) ==
    BestOfScored(Scored(terms, sensor_name, priority_terms))

\* if best_score > 0.3
RetainedAlways(best_score) == TRUE

Retained(best_score) == ScoreGreater(best_score, Fraction(3, 10))

\* What the loop over current_hw.Sensors does with one sensor: `keep` says
\* whether a candidate is appended, `best` is what the loop over the terms left.
Verdict(best) == [keep |-> Retained(best.best_score), best |-> best]
SensorVerdictLower(mapping, sensor_type, sensor_name) ==
    IF sensor_type # Lower(mapping.sensor_type)
      THEN [keep |-> FALSE]
    ELSE IF IsExcluded(sensor_name, mapping.exclude_terms)
      THEN [keep |-> FALSE]
    ELSE Verdict(ScoreTerms(mapping.search_terms, sensor_name, mapping.priority_terms))
SensorVerdict(mapping, type, name) == SensorVerdictLower(mapping, Lower(type), Lower(name))

\* SensorVerdict for every profile and kind of sensor, computed once.
Verdicts ==
    [mapping \in {SENSOR_MAP[m] : m \in DOMAIN SENSOR_MAP} |->
       [k \in SensorKinds |-> SensorVerdict(mapping, k[1], k[2])]]

\* candidates.append({...}) if the sensor is kept
WithCandidate(candidates, sensor, v) ==
    IF v.keep
      THEN Append(candidates,
                  [sensor |-> sensor, score |-> v.best.best_score,
                   term |-> v.best.matched_term, is_priority |-> v.best.is_priority,
                   name |-> sensor.name])
      ELSE candidates

\* The loop over current_hw.Sensors: the candidates after `sensors`.
RECURSIVE ScanSensors(_, _, _)
ScanSensors(candidates, mapping, sensors) ==
    IF Len(sensors) = 0 THEN candidates
    ELSE ScanSensors(WithCandidate(candidates, Head(sensors),
                                   Verdicts[mapping][<<Head(sensors).type,
                                                       Head(sensors).name>>]),
                     mapping, Tail(sensors))

\* search_recursively(current_hw): s holds candidates and debug_info; `pending`
\* are the nodes the recursion has yet to enter, the one entered next first:
\* after a node's sensors come its SubHardware, each with all below it, and
\* only then what was pending before.
RECURSIVE SearchRecursively(_, _, _)
SearchRecursively(s, mapping, pending) ==
    IF Len(pending) = 0 THEN s
    ELSE SearchRecursively(
           [candidates |-> ScanSensors(s.candidates, mapping, Head(pending).sensors),
            debug_info |-> Append(s.debug_info, "read")],
           mapping, Head(pending).subs \o Tail(pending))

\* The sort key (is_priority, score) of a is smaller than that of b.
KeyLessScoreOnly(a, b) == ScoreGreater(b.score, a.score)

KeyLess(a, b) ==
    \/ ~a.is_priority /\ b.is_priority
    \/ a.is_priority = b.is_priority /\ ScoreGreater(b.score, a.score)

\* candidates.sort(key=..., reverse=True): a stable sort, equal keys keep their order
RECURSIVE InsertCandidate(_, _)
InsertCandidate(sorted, c) ==
    IF Len(sorted) = 0 THEN <<c>>
    ELSE IF KeyLess(Head(sorted), c) THEN <<c>> \o sorted
    ELSE <<Head(sorted)>> \o InsertCandidate(Tail(sorted), c)

RECURSIVE SortCandidates(_)
SortCandidates(candidates) ==
    IF Len(candidates) = 0 THEN <<>>
    ELSE InsertCandidate(SortCandidates(SubSeq(candidates, 1, Len(candidates) - 1)),
                         candidates[Len(candidates)])

\* The end of find_sensor, s being what search_recursively has collected.
BestCandidate(s) ==
    IF Len(s.candidates) = 0
      THEN [sensor |-> NoSensor, candidates |-> <<>>,
            debug_info |-> Append(s.debug_info, "no_candidates")]
      ELSE [sensor |-> SortCandidates(s.candidates)[1].sensor.id,
            candidates |-> s.candidates,
            debug_info |-> s.debug_info \o
              (IF Len(s.candidates) > 1 THEN <<"best", "more">> ELSE <<"best">>)]

\* find_sensor(canonical_name, hardware_item, debug_info): the sensor returned
\* (NoSensor for None), the candidates as collected and the lines of the trace.
FindSensor(canonical_name, hardware_item) ==
    IF canonical_name \notin DOMAIN SENSOR_MAP
      THEN [sensor |-> NoSensor, candidates |-> <<>>, debug_info |-> <<"no_mapping">>]
      ELSE BestCandidate(SearchRecursively([candidates |-> <<>>, debug_info |-> <<"start">>],
                                           SENSOR_MAP[canonical_name], <<hardware_item>>))

(***************************************************************************)
(* Specification of find_sensor on the tree of one device.                  *)
(***************************************************************************)
MaxSensors == 2
MaxSubHardware == 2
MaxSubSensors == 1

Digit(i) == SubSeq("0123456789", i + 1, i + 1)

\* The sensors of one node: the kinds in `kinds`, identified by node and position.
SensorList(path, kinds) ==
    [i \in 1..Len(kinds) |->
       [type |-> kinds[i][1], name |-> kinds[i][2], id |-> path \o "/" \o Digit(i)]]

KindLists(max) == UNION { [1..n -> SearchKinds] : n \in 0..max }

SubHardwareLists(maxSub, maxSensors) ==
    { [i \in 1..Len(ks) |->
         [kind |-> "GPU", name |-> "Sub", id |-> "/gpu/0/" \o Digit(i),
          sensors |-> SensorList("/gpu/0/" \o Digit(i), ks[i]), subs |-> <<>>]] :
        ks \in UNION { [1..n -> KindLists(maxSensors)] : n \in 0..maxSub } }

\* The device trees the search is run on: at most maxSensors sensors on the
\* device, at most maxSub sub-devices with at most maxSubSensors sensors each.
HardwareTrees(maxSensors, maxSub, maxSubSensors) ==
    { [kind |-> "GPU", name |-> "RTX", id |-> "/gpu/0",
       sensors |-> SensorList("/gpu/0", ks), subs |-> subs] :
        ks \in KindLists(maxSensors), subs \in SubHardwareLists(maxSub, maxSubSensors) }

\* The metrics asked for; the last one has no profile in SENSOR_MAP.
CanonicalNames == {"GPU_CORE_TEMP", "STORAGE_TEMP", "NO_SUCH_METRIC"}

InitSearch ==
    /\ InitHealth
    /\ Sequential
    /\ SaveIdle
    /\ cpu_sensor = NoSensor
    /\ gpu_sensors = EmptyDict
    /\ storage_sensors = <<>>
    /\ cacheFile = NoFile
    /\ tempFiles = {}
    /\ backups = {}
    /\ sensor_cache = EmptyDict
    /\ lastOp = NoOp
    /\ opCount = 0
    /\ \E tree \in HardwareTrees(MaxSensors, MaxSubHardware, MaxSubSensors) : hardware = <<tree>>
    /\ hardware_fingerprint = ""
    /\ cache_updated = FALSE
    /\ cpus = <<>>
    /\ gpus = <<>>
    /\ computer = FALSE

\* One call of find_sensor on the device.
Find ==
    /\ \E canonical_name \in CanonicalNames :
         \E r \in {FindSensor(canonical_name, hardware[1])} :
           lastOp' = [op |-> "find", canonical_name |-> canonical_name,
                      sensor |-> r.sensor, candidates |-> r.candidates,
                      debug_info |-> r.debug_info]
    /\ UNCHANGED <<healthVars, activeVars, saveVars, hwVars, diagVars, raceVars, cacheFile, tempFiles,
                   backups, sensor_cache, opCount>>

NextSearch == Find
SpecSearch == InitSearch /\ [][NextSearch]_vars

(***************************************************************************)
(* Claims about the tree search.                                            *)
(***************************************************************************)
\* The sensors of the devices in `pending` and of their sub-devices, in the
\* order of the walk.
RECURSIVE WalkSensors(_)
WalkSensors(pending) ==
    IF Len(pending) = 0 THEN <<>>
    ELSE Head(pending).sensors \o WalkSensors(Head(pending).subs \o Tail(pending))
TreeSensors(hw) == WalkSensors(<<hw>>)

Range(f) == {f[i] : i \in DOMAIN f}

Searched == lastOp.op = "find" /\ lastOp.canonical_name \in DOMAIN SENSOR_MAP
Profile == SENSOR_MAP[lastOp.canonical_name]

\* The sensor is of the profile's type and its name holds no exclude term.
Eligible(sensor, profile) ==
    /\ Lower(sensor.type) = Lower(profile.sensor_type)
    /\ \A i \in 1..Len(profile.exclude_terms) :
         ~Contains(Lower(sensor.name), profile.exclude_terms[i])

KindOf(sensor) == <<sensor.type, sensor.name>>
AsSensor(k) == [type |-> k[1], name |-> k[2]]

\* The kinds of sensor that are Eligible for each metric.
EligibleKinds ==
    [m \in DOMAIN SENSOR_MAP |-> {k \in SensorKinds : Eligible(AsSensor(k), SENSOR_MAP[m])}]

\* C14: every candidate find_sensor collects is a sensor of the profile's
\* type (compared in lower case) whose lower-cased name holds none of the
\* exclude terms and whose score is above 0.3; the sensor returned is such a
\* sensor.
C14_CandidatesAreEligible ==
    Searched =>
      /\ \A i \in 1..Len(lastOp.candidates) :
           /\ KindOf(lastOp.candidates[i].sensor) \in EligibleKinds[lastOp.canonical_name]
           /\ 10 * lastOp.candidates[i].score.num > 3 * lastOp.candidates[i].score.den
      /\ lastOp.sensor # NoSensor =>
           \E s \in Range(TreeSensors(hardware[1])) :
             s.id = lastOp.sensor /\ KindOf(s) \in EligibleKinds[lastOp.canonical_name]

\* A search met a sensor of the wrong type and one with an exclude term, both
\* named after a search term, and returned another sensor.
C14_Witness ==
    /\ Searched
    /\ lastOp.canonical_name = "GPU_CORE_TEMP"
    /\ \E s \in Range(TreeSensors(hardware[1])) : s.type = "Clock" /\ s.name = "GPU Core"
    /\ \E s \in Range(TreeSensors(hardware[1])) : s.name = "GPU Memory Junction"
    /\ Len(lastOp.candidates) = 1
    /\ lastOp.sensor # NoSensor

\* The places in search_terms of the profile of metric m.
TermsOf(m) == 1..Len(SENSOR_MAP[m].search_terms)
IsPriorityTerm(m, t) == InList(SENSOR_MAP[m].search_terms[t], SENSOR_MAP[m].priority_terms)

\* For every metric and kind of sensor: the search terms that are part of the
\* sensor's lower-cased name, and every search term's ratio with that name.
TermsInName ==
    [m \in DOMAIN SENSOR_MAP |->
       [k \in SensorKinds |->
          {t \in TermsOf(m) : Contains(Lower(k[2]), Lower(SENSOR_MAP[m].search_terms[t]))}]]
Ratios ==
    [m \in DOMAIN SENSOR_MAP |->
       [k \in SensorKinds |->
          [t \in TermsOf(m) |->
             SimilarityScore(Lower(SENSOR_MAP[m].search_terms[t]), Lower(k[2]))]]]

AboveSixTenths(r) == 10 * r.num > 6 * r.den
SameScore(a, b) == a.num * b.den = b.num * a.den

\* The kinds of sensor in whose name no search term occurs and for which no
\* term's ratio is above 0.6.
WeakKinds ==
    [m \in DOMAIN SENSOR_MAP |->
       {k \in SensorKinds :
          /\ TermsInName[m][k] = {}
          /\ \A t \in TermsOf(m) : ~AboveSixTenths(Ratios[m][k][t])}]

\* C15 as stated: a sensor in whose name no search term occurs and for which
\* no term's ratio is above 0.6 yields no candidate.
C15_RatioAcceptedAboveSixTenthsOnly ==
    Searched =>
      \A i \in 1..Len(lastOp.candidates) :
        KindOf(lastOp.candidates[i].sensor) \notin WeakKinds[lastOp.canonical_name]

\* What a term that is not in the name contributes: its ratio, raised by 0.1
\* when the ratio is above 0.6 and the term is a priority term.
FuzzyScores ==
    [m \in DOMAIN SENSOR_MAP |->
       [k \in SensorKinds |->
          [t \in TermsOf(m) |->
             IF AboveSixTenths(Ratios[m][k][t]) /\ IsPriorityTerm(m, t)
               THEN Fraction(10 * Ratios[m][k][t].num + Ratios[m][k][t].den,
                             10 * Ratios[m][k][t].den)
               ELSE Ratios[m][k][t]]]]

\* The kinds of sensor of the profile's type without exclude term in whose
\* name no search term occurs.
FuzzyKinds ==
    [m \in DOMAIN SENSOR_MAP |-> {k \in EligibleKinds[m] : TermsInName[m][k] = {}}]

\* What the search is to make of such a sensor: the greatest of the scores,
\* and is_priority iff a priority term has a ratio above 0.6.
FuzzyOutcomes ==
    [m \in DOMAIN SENSOR_MAP |->
       [k \in FuzzyKinds[m] |->
          [score |-> FuzzyScores[m][k][
                       CHOOSE t \in TermsOf(m) :
                         \A u \in TermsOf(m) :
                           ~ScoreGreater(FuzzyScores[m][k][u], FuzzyScores[m][k][t])],
           is_priority |-> \E t \in TermsOf(m) :
                             AboveSixTenths(Ratios[m][k][t]) /\ IsPriorityTerm(m, t)]]]

\* C15 (amended): for a sensor of the profile's type without exclude term in
\* whose name no search term occurs, every term's ratio competes for the
\* score whatever its size; the 0.6 test decides only whether a priority term
\* adds 0.1 and sets is_priority.  The sensor is a candidate iff the greatest
\* of these scores is above 0.3, and the candidate carries that score.
C15_RatioAlwaysCompetes ==
    Searched =>
      \A s \in Range(TreeSensors(hardware[1])) :
        KindOf(s) \in FuzzyKinds[lastOp.canonical_name] =>
          LET best == FuzzyOutcomes[lastOp.canonical_name][KindOf(s)]
              mine == {i \in 1..Len(lastOp.candidates) : lastOp.candidates[i].sensor = s}
          IN  /\ Cardinality(mine) = (IF 10 * best.score.num > 3 * best.score.den
                                        THEN 1 ELSE 0)
              /\ \A i \in mine :
                   /\ SameScore(lastOp.candidates[i].score, best.score)
                   /\ lastOp.candidates[i].is_priority = best.is_priority

\* The search returned a sensor named "Die", whose best ratio is the 0.6 of
\* 'gpu die'.
C15_Witness ==
    /\ Searched
    /\ lastOp.canonical_name = "GPU_CORE_TEMP"
    /\ Len(lastOp.candidates) = 1
    /\ lastOp.candidates[1].name = "Die"
    /\ lastOp.candidates[1].score = Fraction(6, 10)
    /\ lastOp.candidates[1].term = "gpu die"
    /\ lastOp.sensor = lastOp.candidates[1].sensor.id

\* TermScore of every search term for every metric and kind of sensor.
TermScores ==
    [m \in DOMAIN SENSOR_MAP |->
       [k \in SensorKinds |->
          [t \in TermsOf(m) |->
             TermScore(SENSOR_MAP[m].search_terms[t], Lower(k[2]),
                       SENSOR_MAP[m].priority_terms)]]]

\* The best-scoring search term for a sensor: the first term in search_terms
\* order whose score no other term exceeds.
TopTerm ==
    [m \in DOMAIN SENSOR_MAP |->
       [k \in SensorKinds |->
          CHOOSE t \in TermsOf(m) :
            /\ \A u \in TermsOf(m) :
                 ~ScoreGreater(TermScores[m][k][u].score, TermScores[m][k][t].score)
            /\ \A u \in 1..(t - 1) :
                 ScoreGreater(TermScores[m][k][t].score, TermScores[m][k][u].score)]]
BestTerms ==
    [m \in DOMAIN SENSOR_MAP |->
       [k \in SensorKinds |->
          [score |-> TermScores[m][k][TopTerm[m][k]].score,
           term |-> SENSOR_MAP[m].search_terms[TopTerm[m][k]],
           is_priority |-> IsPriorityTerm(m, TopTerm[m][k])]]]

\* C16: a candidate carries the score, the term and the priority flag of the
\* single best-scoring term: its score is the greatest over all search terms,
\* its term is the first term to reach that score, and it is a priority
\* candidate only if that term is a priority term.
C16_CandidateDescribesBestTerm ==
    Searched =>
      \A i \in 1..Len(lastOp.candidates) :
        LET c == lastOp.candidates[i]
            best == BestTerms[lastOp.canonical_name][KindOf(c.sensor)]
        IN  /\ SameScore(c.score, best.score)
            /\ c.term = best.term
            /\ c.is_priority => best.is_priority

\* Candidate a comes before candidate b in the order (is_priority, score).
Outranks(a, b) ==
    \/ a.is_priority /\ ~b.is_priority
    \/ a.is_priority = b.is_priority /\ a.score.num * b.score.den > b.score.num * a.score.den

\* The place of a sensor in the depth-first walk of the device.
Encounter(sensor) ==
    CHOOSE i \in 1..Len(TreeSensors(hardware[1])) : TreeSensors(hardware[1])[i] = sensor

\* C17: find_sensor returns the candidate no other candidate outranks in
\* (is_priority, score), and of several such the one the depth-first walk
\* (a device's sensors in list order, then its sub-devices in order) met
\* first; it returns None, after a line of the trace that says why, iff the
\* metric has no profile or there is no candidate.
C17_BestCandidateFirstSeenWins ==
    lastOp.op = "find" =>
      LET n == Len(lastOp.candidates)
      IN  /\ \A i, j \in 1..n :
               i < j => Encounter(lastOp.candidates[i].sensor)
                          < Encounter(lastOp.candidates[j].sensor)
          /\ lastOp.sensor = NoSensor <=> (~Searched \/ n = 0)
          /\ lastOp.sensor = NoSensor =>
               lastOp.debug_info[Len(lastOp.debug_info)] =
                 (IF Searched THEN "no_candidates" ELSE "no_mapping")
          /\ lastOp.sensor # NoSensor =>
               \E w \in 1..n :
                 /\ lastOp.candidates[w].sensor.id = lastOp.sensor
                 /\ \A i \in 1..n : ~Outranks(lastOp.candidates[i], lastOp.candidates[w])
                 /\ \A i \in 1..(w - 1) :
                      Outranks(lastOp.candidates[w], lastOp.candidates[i])

\* The walk met a candidate without priority, then on the device a priority
\* candidate and in a sub-device another of the same score; the search
\* returned the second of the three.
C17_Witness ==
    /\ Searched
    /\ Len(lastOp.candidates) = 3
    /\ ~lastOp.candidates[1].is_priority
    /\ lastOp.candidates[2].is_priority /\ lastOp.candidates[3].is_priority
    /\ lastOp.candidates[2].score = lastOp.candidates[3].score
    /\ lastOp.candidates[2].name # lastOp.candidates[3].name
    /\ lastOp.candidates[3].sensor \notin Range(hardware[1].sensors)
    /\ lastOp.sensor = lastOp.candidates[2].sensor.id

(***************************************************************************)
(* HardwareManager: selecting a CPU or a GPU, refresh and reset.            *)
(***************************************************************************)
\* The end of _find_or_discover_sensor: `found` is what find_sensor returned.
DiscoveredUnflagged(cache, cache_key, found) ==
    IF found # NoSensor
      THEN [sensor |-> found, cache |-> Put(cache, cache_key, JStr(found)), wrote |-> {}]
      ELSE [sensor |-> NoSensor, cache |-> cache, wrote |-> {}]

Discovered(cache, cache_key, found) ==
    IF found # NoSensor
      THEN [sensor |-> found, cache |-> Put(cache, cache_key, JStr(found)),
            wrote |-> {cache_key}]
      ELSE [sensor |-> NoSensor, cache |-> cache, wrote |-> {}]

\* Its beginning: cached_id is self.sensor_cache.get(cache_key), and a cached
\* id answers the call when a sensor of hardware_item.Sensors has it.
CachedOrDiscovered(cache, cache_key, cached_id, canonical_name, hardware_item) ==
    IF /\ cached_id.kind = "str"
       /\ cached_id.val # ""
       /\ \E i \in 1..Len(hardware_item.sensors) : hardware_item.sensors[i].id = cached_id.val
      THEN [sensor |-> cached_id.val, cache |-> cache, wrote |-> {}]
      ELSE Discovered(cache, cache_key, FindSensor(canonical_name, hardware_item).sensor)

\* f"{hw_id}_{canonical_name}" if hw_id else canonical_name
CacheKey(hw_id, canonical_name) ==
    IF hw_id # "" THEN hw_id \o "_" \o canonical_name ELSE canonical_name

\* _find_or_discover_sensor(canonical_name, hardware_item, hw_id): the sensor
\* returned (NoSensor for None), the cache afterwards and the keys written.
FindOrDiscover(cache, canonical_name, hardware_item, hw_id) ==
    CachedOrDiscovered(cache, CacheKey(hw_id, canonical_name),
                       Get(cache, CacheKey(hw_id, canonical_name), JNull),
                       canonical_name, hardware_item)

\* gpu_sensor_map of _process_gpu_with_diagnostics, in the order of its items
gpu_sensor_map ==
    << <<"gpu_core_temp", "GPU_CORE_TEMP">>, <<"gpu_hotspot_temp", "GPU_HOTSPOT_TEMP">>,
       <<"gpu_memory_temp", "GPU_MEMORY_TEMP">>, <<"core_clock", "GPU_CORE_CLOCK">>,
       <<"memory_clock", "GPU_MEMORY_CLOCK">>, <<"power", "GPU_POWER">>,
       <<"vram_used", "VRAM_USED">>, <<"vram_total", "VRAM_TOTAL">> >>

\* One turn of the loop over gpu_sensor_map: p holds the cache, the keys
\* written and temp_gpu_sensors, r is what _find_or_discover_sensor returned.
AfterGpuSensor(p, key, r) ==
    [cache |-> r.cache, wrote |-> p.wrote \cup r.wrote,
     temp_gpu_sensors |-> IF r.sensor # NoSensor THEN Put(p.temp_gpu_sensors, key, r.sensor)
                          ELSE p.temp_gpu_sensors]

RECURSIVE ResolveGpuSensors(_, _, _)
ResolveGpuSensors(p, gpu_hw, items) ==
    IF Len(items) = 0 THEN p
    ELSE ResolveGpuSensors(
           AfterGpuSensor(p, Head(items)[1],
                          FindOrDiscover(p.cache, Head(items)[2], gpu_hw, gpu_hw.id)),
           gpu_hw, Tail(items))

\* if temp_gpu_sensors: self.gpu_sensors = temp_gpu_sensors
ActivatedGpuSensors(p, active) ==
    [cache |-> p.cache, wrote |-> p.wrote,
     gpu_sensors |-> IF p.temp_gpu_sensors # EmptyDict THEN p.temp_gpu_sensors ELSE active]

\* _process_gpu_with_diagnostics(gpu_hw) with self.gpu_sensors = active
ProcessGpu(cache, active, gpu_hw) ==
    ActivatedGpuSensors(
      ResolveGpuSensors([cache |-> cache, wrote |-> {}, temp_gpu_sensors |-> EmptyDict],
                        gpu_hw, gpu_sensor_map),
      active)

\* The device a selection means: selected_id "auto" is the first of `devices`,
\* another id the first device with that Identifier; NoSensor stands for None.
TargetFirstListed(devices, selected_id) ==
    IF devices # <<>> THEN devices[1] ELSE NoSensor

Target(devices, selected_id) ==
    IF selected_id = "auto"
      THEN IF devices # <<>> THEN devices[1] ELSE NoSensor
    ELSE IF \E i \in 1..Len(devices) : devices[i] = selected_id
      THEN devices[CHOOSE i \in 1..Len(devices) :
                     /\ devices[i] = selected_id
                     /\ \A j \in 1..(i - 1) : devices[j] # selected_id]
    ELSE NoSensor

\* if self.cache_updated: save_sensor_cache(self.sensor_cache)
SaveIfUpdated(updated, cache, io) ==
    IF updated THEN SaveSensorCache(cache, cacheFile, tempFiles, now, io)
    ELSE [target |-> cacheFile, temps |-> tempFiles, ok |-> FALSE]

(***************************************************************************)
(* Specification of a HardwareManager whose devices are selected.           *)
(***************************************************************************)
MaxSelectOps == 3

\* The machine's processors and graphics cards.
CpuA ==
    [kind |-> "Cpu", name |-> "Ryzen", id |-> "/amdcpu/0",
     sensors |-> << [type |-> "Temperature", name |-> "Core (Tctl/Tdie)",
                     id |-> "/amdcpu/0/temperature/2"] >>,
     subs |-> <<>>]
CpuB ==
    [kind |-> "Cpu", name |-> "Xeon", id |-> "/intelcpu/1",
     sensors |-> << [type |-> "Temperature", name |-> "Core 0",
                     id |-> "/intelcpu/1/temperature/0"] >>,
     subs |-> <<>>]
GpuA ==
    [kind |-> "GpuNvidia", name |-> "RTX", id |-> "/gpu-nvidia/0",
     sensors |-> << [type |-> "Temperature", name |-> "GPU Core",
                     id |-> "/gpu-nvidia/0/temperature/0"],
                    [type |-> "Clock", name |-> "GPU Core",
                     id |-> "/gpu-nvidia/0/clock/0"] >>,
     subs |-> << [kind |-> "GpuNvidia", name |-> "RTX Memory", id |-> "/gpu-nvidia/0/mem",
                  sensors |-> << [type |-> "Temperature", name |-> "GPU Memory Junction",
                                  id |-> "/gpu-nvidia/0/mem/temperature/0"] >>,
                  subs |-> <<>>] >>]
GpuB ==
    [kind |-> "GpuNvidia", name |-> "GT", id |-> "/gpu-nvidia/1",
     sensors |-> <<>>, subs |-> <<>>]
GpuC ==
    [kind |-> "GpuAmd", name |-> "Radeon", id |-> "/gpu-amd/0",
     sensors |-> << [type |-> "Temperature", name |-> "GPU Core",
                     id |-> "/gpu-amd/0/temperature/0"] >>,
     subs |-> <<>>]
CpuC ==
    [kind |-> "Cpu", name |-> "Core i7", id |-> "/intelcpu/0",
     sensors |-> << [type |-> "Temperature", name |-> "CPU Package",
                     id |-> "/intelcpu/0/temperature/0"] >>,
     subs |-> <<>>]
SelectNodes == {CpuA, CpuB, GpuA, GpuB}

\* The hardware object an entry of self.cpus or self.gpus stands for; the
\* lists keep the object also when computer.Hardware no longer has it.
NodeById(id) == CHOOSE n \in SelectNodes \cup {GpuC, CpuC} : n.id = id

\* Every order in which computer.Hardware may list up to MaxDevices of them.
MaxDevices == 2
SelectOrders ==
    UNION { {h \in [1..n -> SelectNodes] : Injective(h)} : n \in 0..MaxDevices }

\* What a caller may pass as selected_cpu_id or selected_gpu_id.
SelectedIds == {"auto", "/no/such/device"} \cup {n.id : n \in SelectNodes}

InitSelect ==
    /\ InitHealth
    /\ Sequential
    /\ SaveIdle
    /\ cpu_sensor = NoSensor
    /\ gpu_sensors = EmptyDict
    /\ storage_sensors = <<>>
    /\ cacheFile = NoFile
    /\ tempFiles = {}
    /\ backups = {}
    /\ sensor_cache = EmptyDict
    /\ lastOp = NoOp
    /\ opCount = 0
    /\ hardware \in SelectOrders
    /\ hardware_fingerprint = ""
    /\ cache_updated = FALSE
    /\ cpus = <<>>
    /\ gpus = <<>>
    /\ computer = FALSE

\* self.failed_sensors after update_selected_cpu_sensors got `sensor` for
\* target_cpu: only a failure writes, under the metric's name.
CpuFailure(failed, target_cpu, sensor) ==
    IF sensor # NoSensor THEN failed
    ELSE Put(failed, "CPU_PACKAGE_TEMP",
             [hardware |-> target_cpu.name,
              debug_info |-> FindSensor("CPU_PACKAGE_TEMP", target_cpu).debug_info])

\* self.failed_sensors after the loop of _process_gpu_with_diagnostics, from
\* item i of gpu_sensor_map on: a key that got no sensor into temp_gpu_sensors
\* is written under f"{gpu_hw.Name}_{canonical_name}".
RECURSIVE GpuFailures(_, _, _, _)
GpuFailures(failed, gpu_hw, temp_gpu_sensors, i) ==
    IF i > Len(gpu_sensor_map) THEN failed
    ELSE GpuFailures(
           IF gpu_sensor_map[i][1] \in DOMAIN temp_gpu_sensors THEN failed
           ELSE Put(failed, gpu_hw.name \o "_" \o gpu_sensor_map[i][2],
                    [hardware |-> gpu_hw.name, sensor_type |-> gpu_sensor_map[i][2],
                     debug_info |-> FindSensor(gpu_sensor_map[i][2], gpu_hw).debug_info]),
           gpu_hw, temp_gpu_sensors, i + 1)

\* update_selected_cpu_sensors(selected_cpu_id)
SelectCpu ==
    /\ Constructed
    /\ opCount < MaxSelectOps
    /\ opCount' = opCount + 1
    /\ \E selected_cpu_id \in SelectedIds, io \in IoOutcomes :
         \E target_cpu \in {Target(cpus, selected_cpu_id)} :
           IF target_cpu = NoSensor
             THEN /\ io = "ok"
                  /\ cpu_sensor' = NoSensor
                  /\ lastOp' = [op |-> "select_cpu", selected |-> selected_cpu_id,
                                target |-> NoSensor, returned |-> selected_cpu_id,
                                wrote |-> {}, saved |-> FALSE, io |-> io, ok |-> FALSE]
                  /\ UNCHANGED <<sensor_cache, cache_updated, cacheFile, tempFiles,
                                 failed_sensors>>
             ELSE \E r \in {FindOrDiscover(sensor_cache, "CPU_PACKAGE_TEMP",
                                           NodeById(target_cpu), target_cpu)} :
                    \E updated \in {cache_updated \/ r.wrote # {}} :
                      \E f \in {SaveIfUpdated(updated, r.cache, io)} :
                        /\ (io # "ok" => updated)
                        /\ cpu_sensor' = r.sensor
                        /\ failed_sensors' =
                             CpuFailure(failed_sensors, NodeById(target_cpu), r.sensor)
                        /\ sensor_cache' = r.cache
                        /\ cache_updated' = updated
                        /\ cacheFile' = f.target
                        /\ tempFiles' = f.temps
                        /\ lastOp' = [op |-> "select_cpu", selected |-> selected_cpu_id,
                                      target |-> target_cpu, returned |-> target_cpu,
                                      wrote |-> r.wrote, saved |-> updated, io |-> io,
                                      ok |-> f.ok]
    /\ UNCHANGED <<healthVars, saveVars, raceVars, gpu_sensors, storage_sensors, backups, hardware,
                   hardware_fingerprint, cpus, gpus, computer>>

\* update_selected_gpu_sensors(selected_gpu_id)
SelectGpu ==
    /\ Constructed
    /\ opCount < MaxSelectOps
    /\ opCount' = opCount + 1
    /\ \E selected_gpu_id \in SelectedIds, io \in IoOutcomes :
         \E target_gpu \in {Target(gpus, selected_gpu_id)} :
           IF target_gpu = NoSensor
             THEN /\ io = "ok"
                  /\ lastOp' = [op |-> "select_gpu", selected |-> selected_gpu_id,
                                target |-> NoSensor, returned |-> selected_gpu_id,
                                wrote |-> {}, saved |-> FALSE, io |-> io, ok |-> FALSE]
                  /\ UNCHANGED <<gpu_sensors, sensor_cache, cache_updated, cacheFile,
                                 tempFiles, failed_sensors>>
             ELSE \E r \in {ProcessGpu(sensor_cache, EmptyDict, NodeById(target_gpu))} :
                    \E updated \in {cache_updated \/ r.wrote # {}} :
                      \E f \in {SaveIfUpdated(updated, r.cache, io)} :
                        /\ (io # "ok" => updated)
                        /\ gpu_sensors' = r.gpu_sensors
                        /\ failed_sensors' =
                             GpuFailures(failed_sensors, NodeById(target_gpu),
                                         r.gpu_sensors, 1)
                        /\ sensor_cache' = r.cache
                        /\ cache_updated' = updated
                        /\ cacheFile' = f.target
                        /\ tempFiles' = f.temps
                        /\ lastOp' = [op |-> "select_gpu", selected |-> selected_gpu_id,
                                      target |-> target_gpu, returned |-> target_gpu,
                                      wrote |-> r.wrote, saved |-> updated, io |-> io,
                                      ok |-> f.ok]
    /\ UNCHANGED <<healthVars, saveVars, raceVars, cpu_sensor, storage_sensors, backups, hardware,
                   hardware_fingerprint, cpus, gpus, computer>>

\* refresh_hardware_detection()
Refresh ==
    /\ Constructed
    /\ computer
    /\ opCount < MaxSelectOps
    /\ opCount' = opCount + 1
    /\ \E io \in IoOutcomes :
         \E d \in {DetectHardware([cpus |-> <<>>, gpus |-> <<>>, storage |-> <<>>], hardware)} :
           \E f \in {SaveIfUpdated(cache_updated, sensor_cache, io)} :
             /\ (io # "ok" => cache_updated)
             /\ cpus' = d.cpus
             /\ gpus' = d.gpus
             /\ storage_sensors' = d.storage
             /\ cpu_sensor' = NoSensor
             /\ gpu_sensors' = EmptyDict
             /\ cacheFile' = f.target
             /\ tempFiles' = f.temps
             /\ cache_updated' = FALSE
             /\ failed_sensors' = EmptyDict
             /\ lastOp' = [op |-> "refresh", wrote |-> {}, saved |-> cache_updated,
                           io |-> io, ok |-> f.ok]
    /\ UNCHANGED <<healthVars, saveVars, raceVars, backups, sensor_cache, hardware,
                   hardware_fingerprint, computer>>

\* reset_sensor_cache(); `raisesAt` is the node whose Update() raises during
\* the detection (0: none does), which the except clause answers with False.
Reset ==
    /\ Constructed
    /\ opCount < MaxSelectOps
    /\ opCount' = opCount + 1
    /\ \E io \in IoOutcomes, raisesAt \in 0..Len(hardware) :
         \E seen \in {IF ~computer THEN <<>>
                      ELSE IF raisesAt = 0 THEN hardware
                      ELSE SubSeq(hardware, 1, raisesAt - 1)} :
           \E d \in {DetectHardware([cpus |-> <<>>, gpus |-> gpus, storage |-> <<>>], seen)},
              cache \in {"_hardware_fingerprint" :>
                           Get(sensor_cache, "_hardware_fingerprint", JStr(""))} :
             \E f \in {SaveIfUpdated(computer /\ raisesAt = 0, cache, io)} :
               /\ (raisesAt # 0 => computer)
               /\ (io # "ok" => computer /\ raisesAt = 0)
               /\ sensor_cache' = cache
               /\ cpus' = d.cpus
               /\ gpus' = d.gpus
               /\ storage_sensors' = d.storage
               /\ cpu_sensor' = NoSensor
               /\ gpu_sensors' = EmptyDict
               /\ failed_sensors' = EmptyDict
               /\ cacheFile' = f.target
               /\ tempFiles' = f.temps
               /\ lastOp' = [op |-> "reset", wrote |-> {}, saved |-> computer /\ raisesAt = 0,
                             io |-> io, ok |-> f.ok, returned |-> computer /\ raisesAt = 0]
    /\ UNCHANGED <<healthVars, saveVars, raceVars, backups, hardware, hardware_fingerprint,
                   cache_updated, computer>>

NextSelect == Construct \/ SelectCpu \/ SelectGpu \/ Refresh \/ Reset
SpecSelect == InitSelect /\ [][NextSelect]_vars

(***************************************************************************)
(* Claims about the selection of devices.                                   *)
(***************************************************************************)
Selected == lastOp.op \in {"select_cpu", "select_gpu"}
\* The list the last selection chose from.
Listed == IF lastOp.op = "select_cpu" THEN cpus ELSE gpus
\* The place of a device in computer.Hardware.
Enumerated(id) == CHOOSE i \in 1..Len(hardware) : hardware[i].id = id

\* C18: a selection of "auto" chooses the first device of the list, which is
\* the listed device computer.Hardware enumerates first; a selection of an id
\* chooses the listed device with exactly that id; and when a device is chosen
\* its id is returned, whether or not a sensor was resolved for it.
C18_SelectionChoosesDevice ==
    Selected =>
      /\ (lastOp.selected = "auto" /\ Listed # <<>>) =>
           /\ lastOp.target = Listed[1]
           /\ \A i \in 1..Len(Listed) : Enumerated(lastOp.target) <= Enumerated(Listed[i])
      /\ (lastOp.selected # "auto" /\ lastOp.selected \in Range(Listed)) =>
           lastOp.target = lastOp.selected
      /\ lastOp.target # NoSensor => lastOp.returned = lastOp.target

\* "auto" chose the processor that is listed first of two, no sensor was
\* resolved for it and its id was returned.
C18_Witness ==
    /\ lastOp.op = "select_cpu"
    /\ lastOp.selected = "auto"
    /\ cpus = <<CpuB.id, CpuA.id>>
    /\ lastOp.returned = CpuB.id
    /\ cpu_sensor = NoSensor

\* C19: a selection that matches no device returns its input, and it leaves
\* no active sensor behind: select_cpu clears the active CPU sensor and
\* select_gpu clears the active GPU sensors.
C19_NoMatchClearsActiveSensors ==
    (Selected /\ lastOp.target = NoSensor) =>
      /\ lastOp.returned = lastOp.selected
      /\ lastOp.op = "select_cpu" => cpu_sensor = NoSensor
      /\ lastOp.op = "select_gpu" => gpu_sensors = EmptyDict

\* The non-metadata entries of the cache file.
FileEntries ==
    SensorEntries(IF cacheFile.form = "object" THEN cacheFile.body ELSE EmptyDict)

ReplugOrders ==
    { <<GpuA>>, <<GpuC>>, <<GpuA, GpuC>>, <<GpuC, GpuA>>, <<GpuA, GpuB>> }

\* A top-level device is added, removed or exchanged while the program runs.
Replug ==
    /\ Constructed
    /\ computer
    /\ lastOp.op # "replug"
    /\ hardware' \in ReplugOrders \ {hardware}
    /\ lastOp' = [op |-> "replug"]
    /\ UNCHANGED <<healthVars, activeVars, saveVars, diagVars, raceVars, cacheFile,
                   tempFiles, backups,
                   sensor_cache, hardware_fingerprint, cache_updated, cpus, gpus,
                   computer, opCount>>

InitReplug ==
    /\ InitHealth
    /\ Sequential
    /\ SaveIdle
    /\ cpu_sensor = NoSensor
    /\ gpu_sensors = EmptyDict
    /\ storage_sensors = <<>>
    /\ cacheFile = NoFile
    /\ tempFiles = {}
    /\ backups = {}
    /\ sensor_cache = EmptyDict
    /\ lastOp = NoOp
    /\ opCount = 0
    /\ hardware \in ReplugOrders
    /\ hardware_fingerprint = ""
    /\ cache_updated = FALSE
    /\ cpus = <<>>
    /\ gpus = <<>>
    /\ computer = FALSE

NextReplug == Construct \/ SelectGpu \/ Refresh \/ Reset \/ Replug
SpecReplug == InitReplug /\ [][NextReplug]_vars

\* The last step was an enumeration pass that ran to its end: an
\* initialization with LibreHardwareMonitor, a refresh, or a reset that
\* returned True.
EnumerationPass ==
    \/ lastOp.op = "construct" /\ lastOp.lhm = "ok" /\ lastOp.raisesAt = 0
    \/ lastOp.op = "refresh"
    \/ lastOp.op = "reset" /\ lastOp.returned

\* C21: after every enumeration pass - initialization, refresh, reset - the
\* manager's fingerprint is the one of the devices enumerated now, and the
\* cache holds that fingerprint, so that mappings stored for another set of
\* devices are gone.
C21_FingerprintRebuiltOnEveryPass ==
    EnumerationPass =>
      /\ hardware_fingerprint = CreateHardwareFingerprint(hardware)
      /\ Get(sensor_cache, "_hardware_fingerprint", JStr("")) =
           JStr(CreateHardwareFingerprint(hardware))

(***************************************************************************)
(* Claims about the counters of the health report.                          *)
(***************************************************************************)
\* The reads of one tick that the cooldown skipped, that were performed and
\* failed, and that were performed and returned a value.
SkippedReads(log) == Cardinality({k \in DOMAIN log : log[k].skipped})
FailedReads(log) == Cardinality({k \in DOMAIN log : ReadFailed(log, k)})
SucceededReads(log) == Cardinality({k \in DOMAIN log : ReadSucceeded(log, k)})

\* C22: a tick counts each of its read attempts once, as successful, as
\* failed or as skipped by the cooldown: the attempts it adds to
\* sensor_read_attempts are the successful reads, the failed reads and the
\* skipped reads it adds, and failed_reads grows by every read of the tick
\* that the tracker recorded as a failure.
C22_EveryAttemptCounted ==
    [][ sensor_read_count' # sensor_read_count =>
          /\ sensor_read_count' - sensor_read_count =
               (successful_reads' - successful_reads) + (failed_reads' - failed_reads)
                 + SkippedReads(lastTick')
          /\ successful_reads' - successful_reads = SucceededReads(lastTick')
          /\ failed_reads' - failed_reads = FailedReads(lastTick') ]_vars

(***************************************************************************)
(* Claims about the classification of the devices.                          *)
(***************************************************************************)
\* C23: after an enumeration pass every top-level node whose kind contains
\* "gpu" (Gpu, GPU, GpuNvidia, GpuAmd) is in the GPU list and not in the CPU
\* list, and no node is in both lists.
C23_GpuKindsAreListedAsGpus ==
    EnumerationPass =>
      /\ \A i \in 1..Len(hardware) :
           Contains(Lower(hardware[i].kind), "gpu") =>
             /\ hardware[i].id \in Range(gpus)
             /\ hardware[i].id \notin Range(cpus)
      /\ Range(cpus) \cap Range(gpus) = {}

(***************************************************************************)
(* Claims about refresh and reset.                                          *)
(***************************************************************************)
\* C24: a refresh on an unchanged hardware tree re-resolves the active
\* sensors: when a CPU sensor was active before refresh_hardware_detection
\* one is active when it returns, and so for the GPU sensors.
C24_RefreshKeepsSensorsActive ==
    [][ lastOp'.op = "refresh" /\ hardware' = hardware =>
          /\ (cpu_sensor # NoSensor => cpu_sensor' # NoSensor)
          /\ (gpu_sensors # EmptyDict => gpu_sensors' # EmptyDict) ]_vars

(***************************************************************************)
(* Claims about a start of the program on a cache of an older version.      *)
(***************************************************************************)
\* The cache file holds mappings written by an older version for the devices
\* that are enumerated now.
OldCacheOfTheseDevices ==
    /\ cacheFile.form = "object"
    /\ Get(cacheFile.body, "_cache_version", JNull) # JStr(CACHE_VERSION)
    /\ Get(cacheFile.body, "_hardware_fingerprint", JNull) =
         JStr(CreateHardwareFingerprint(hardware))
    /\ DOMAIN SensorEntries(cacheFile.body) # {}

\* C25: when the program starts on such a file, the file is read and
\* LibreHardwareMonitor initializes, the mappings of the file are the
\* mappings of the cache after initialization.
C25_MigratedMappingsSurviveStartup ==
    [][ (OldCacheOfTheseDevices /\ lastOp'.op = "construct" /\ lastOp'.lhm = "ok"
           /\ lastOp'.readable) =>
          SensorEntries(sensor_cache') = SensorEntries(cacheFile.body) ]_vars

(***************************************************************************)
(* Specification of a worker tick that runs while the control thread        *)
(* changes the active sensors. The worker thread (core/main_window.py,      *)
(* moveToThread) runs read_all_sensors; the control thread runs             *)
(* refresh_hardware_detection, reset_sensor_cache or                        *)
(* update_selected_gpu_sensors. No lock guards the dicts; a step is one     *)
(* operation on a dict or one assignment of an attribute or a local.        *)
(***************************************************************************)
DiskA ==
    [kind |-> "Storage", name |-> "WD Blue", id |-> "/hdd/0",
     sensors |-> << [type |-> "Temperature", name |-> "Temperature",
                     id |-> "/hdd/0/temperature/0"],
                    [type |-> "Temperature", name |-> "Temperature 2",
                     id |-> "/hdd/0/temperature/1"] >>,
     subs |-> <<>>]
RaceNodes == {GpuA, GpuB, NodeStorage, DiskA}
MaxRaceDevices == 2
RaceOrders ==
    UNION { {h \in [1..n -> RaceNodes] : Injective(h)} : n \in 1..MaxRaceDevices }

\* One statement of the control thread on the two dicts.
Statement(stmt, key, value) == [stmt |-> stmt, key |-> key, value |-> value]

\* The loop of _process_storage_with_diagnostics: one
\* self.storage_sensors[unique_key] = sensor for every temperature sensor.
RECURSIVE StorageStatements(_, _)
StorageStatements(storage_hw, sensors) ==
    IF Len(sensors) = 0 THEN <<>>
    ELSE (IF Head(sensors).type = "Temperature"
            THEN << Statement("storage_set",
                              ReplaceBlanks(storage_hw.name) \o "_" \o Head(sensors).id,
                              Head(sensors).id) >>
            ELSE <<>>)
         \o StorageStatements(storage_hw, Tail(sensors))

\* The statements of _detect_hardware_with_diagnostics over `nodes` that
\* write to self.storage_sensors.
RECURSIVE DetectStatements(_)
DetectStatements(nodes) ==
    IF Len(nodes) = 0 THEN <<>>
    ELSE (IF /\ ~IsCpuHardware(Lower(Head(nodes).kind))
             /\ ~IsGpuHardware(Lower(Head(nodes).kind))
             /\ IsStorageHardware(Lower(Head(nodes).kind))
            THEN StorageStatements(Head(nodes), Head(nodes).sensors)
            ELSE <<>>)
         \o DetectStatements(Tail(nodes))

\* self.gpu_sensors.clear(), then, in _process_gpu_with_diagnostics,
\* self.gpu_sensors = temp_gpu_sensors when temp_gpu_sensors is not empty.
SelectGpuStatements(temp_gpu_sensors) ==
    << Statement("gpu_clear", "", EmptyDict) >>
    \o (IF temp_gpu_sensors # EmptyDict
          THEN << Statement("gpu_assign", "", temp_gpu_sensors) >> ELSE <<>>)

\* self.gpu_sensors.clear(); self.storage_sensors.clear(); the detection
RefreshStatements(nodes) ==
    << Statement("gpu_clear", "", EmptyDict), Statement("storage_clear", "", EmptyDict) >>
    \o DetectStatements(nodes)

\* self.gpu_sensors = {}; self.storage_sensors = {}; the detection
ResetStatements(nodes) ==
    << Statement("gpu_assign", "", EmptyDict), Statement("storage_assign", "", EmptyDict) >>
    \o DetectStatements(nodes)

\* The dict a local names: the manager's own while it is an alias.
Deref(ref, current) == IF ref.alias THEN current ELSE ref.content

\* A local after the manager's attribute got another dict: an alias keeps
\* the dict it named, with the content it had.
Detached(ref, current) ==
    IF ref.alias THEN [alias |-> FALSE, content |-> current] ELSE ref

\* The call the control thread starts; what is neither gpu_sensors nor
\* storage_sensors changes here, the two dicts statement by statement.
Called(op, todo) ==
    control' = [op |-> op, todo |-> todo, gpu_before |-> gpu_sensors,
                storage_before |-> storage_sensors]

\* refresh_hardware_detection() begins
StartRefresh ==
    /\ control.op = "none"
    /\ computer
    /\ \E io \in IoOutcomes :
         \E d \in {DetectHardware([cpus |-> <<>>, gpus |-> <<>>, storage |-> <<>>], hardware)} :
           \E f \in {SaveIfUpdated(cache_updated, sensor_cache, io)} :
             /\ (io # "ok" => cache_updated)
             /\ cpus' = d.cpus
             /\ gpus' = d.gpus
             /\ cpu_sensor' = NoSensor
             /\ cacheFile' = f.target
             /\ tempFiles' = f.temps
             /\ cache_updated' = FALSE
             /\ failed_sensors' = EmptyDict
             /\ lastOp' = [op |-> "refresh", wrote |-> {}, saved |-> cache_updated,
                           io |-> io, ok |-> f.ok]
    /\ Called("refresh", RefreshStatements(hardware))
    /\ UNCHANGED <<healthVars, saveVars, backups, sensor_cache, hardware,
                   hardware_fingerprint, computer, opCount, gpu_sensors, storage_sensors,
                   worker>>

\* reset_sensor_cache() begins
StartReset ==
    /\ control.op = "none"
    /\ \E io \in IoOutcomes, raisesAt \in 0..Len(hardware) :
         \E seen \in {IF ~computer THEN <<>>
                      ELSE IF raisesAt = 0 THEN hardware
                      ELSE SubSeq(hardware, 1, raisesAt - 1)} :
           \E d \in {DetectHardware([cpus |-> <<>>, gpus |-> gpus, storage |-> <<>>], seen)},
              cache \in {"_hardware_fingerprint" :>
                           Get(sensor_cache, "_hardware_fingerprint", JStr(""))} :
             \E f \in {SaveIfUpdated(computer /\ raisesAt = 0, cache, io)} :
               /\ (raisesAt # 0 => computer)
               /\ (io # "ok" => computer /\ raisesAt = 0)
               /\ sensor_cache' = cache
               /\ cpus' = d.cpus
               /\ gpus' = d.gpus
               /\ cpu_sensor' = NoSensor
               /\ failed_sensors' = EmptyDict
               /\ cacheFile' = f.target
               /\ tempFiles' = f.temps
               /\ lastOp' = [op |-> "reset", wrote |-> {}, saved |-> computer /\ raisesAt = 0,
                             io |-> io, ok |-> f.ok, returned |-> computer /\ raisesAt = 0]
               /\ Called("reset", ResetStatements(seen))
    /\ UNCHANGED <<healthVars, saveVars, backups, hardware, hardware_fingerprint,
                   cache_updated, computer, opCount, gpu_sensors, storage_sensors, worker>>

\* update_selected_gpu_sensors(selected_gpu_id) begins
StartSelectGpu ==
    /\ control.op = "none"
    /\ \E selected_gpu_id \in SelectedIds, io \in IoOutcomes :
         \E target_gpu \in {Target(gpus, selected_gpu_id)} :
           IF target_gpu = NoSensor
             THEN /\ io = "ok"
                  /\ lastOp' = [op |-> "select_gpu", selected |-> selected_gpu_id,
                                target |-> NoSensor, returned |-> selected_gpu_id,
                                wrote |-> {}, saved |-> FALSE, io |-> io, ok |-> FALSE]
                  /\ Called("select_gpu", <<>>)
                  /\ UNCHANGED <<sensor_cache, cache_updated, cacheFile, tempFiles,
                                 failed_sensors>>
             ELSE \E r \in {ProcessGpu(sensor_cache, EmptyDict, NodeById(target_gpu))} :
                    \E updated \in {cache_updated \/ r.wrote # {}} :
                      \E f \in {SaveIfUpdated(updated, r.cache, io)} :
                        /\ (io # "ok" => updated)
                        /\ failed_sensors' =
                             GpuFailures(failed_sensors, NodeById(target_gpu),
                                         r.gpu_sensors, 1)
                        /\ sensor_cache' = r.cache
                        /\ cache_updated' = updated
                        /\ cacheFile' = f.target
                        /\ tempFiles' = f.temps
                        /\ lastOp' = [op |-> "select_gpu", selected |-> selected_gpu_id,
                                      target |-> target_gpu, returned |-> target_gpu,
                                      wrote |-> r.wrote, saved |-> updated, io |-> io,
                                      ok |-> f.ok]
                        /\ Called("select_gpu", SelectGpuStatements(r.gpu_sensors))
    /\ UNCHANGED <<healthVars, saveVars, activeVars, backups, hardware,
                   hardware_fingerprint, cpus, gpus, computer, opCount, worker>>

\* The control thread runs its next statement on the dicts.
ControlStep ==
    /\ control.todo # <<>>
    /\ control' = [control EXCEPT !.todo = Tail(control.todo)]
    /\ \E s \in {Head(control.todo)} :
         /\ gpu_sensors' = IF s.stmt \in {"gpu_clear", "gpu_assign"} THEN s.value
                           ELSE gpu_sensors
         /\ storage_sensors' =
              IF s.stmt \in {"storage_clear", "storage_assign"} THEN <<>>
              ELSE IF s.stmt = "storage_set" THEN ItemPut(storage_sensors, s.key, s.value)
              ELSE storage_sensors
         /\ worker' =
              IF s.stmt = "gpu_assign"
                THEN [worker EXCEPT !.gpu_sensors = Detached(worker.gpu_sensors, gpu_sensors)]
              ELSE IF s.stmt = "storage_assign"
                THEN [worker EXCEPT
                        !.storage_sensors = Detached(worker.storage_sensors, storage_sensors)]
              ELSE worker
    /\ UNCHANGED <<healthVars, saveVars, cacheVars, hwVars, diagVars, cpu_sensor>>

\* The names read_gpu_data asks gpu_sensors for, in its order: the values of
\* sensor_map, then 'vram_used' and 'vram_total'.
TickGpuNames ==
    [i \in 1..Len(GpuSensorMap) |-> GpuSensorMap[i][2]] \o <<"vram_used", "vram_total">>

WorkerUnchanged ==
    UNCHANGED <<healthVars, saveVars, cacheVars, hwVars, diagVars, activeVars, control>>

\* read_all_sensors begins
TickStart ==
    /\ worker.pc = "idle"
    /\ worker' = [worker EXCEPT !.pc = "gpu_local"]
    /\ WorkerUnchanged

\* read_gpu_data: gpu_sensors = self.hw_manager.gpu_sensors
TickGpuLocal ==
    /\ worker.pc = "gpu_local"
    /\ worker' = [worker EXCEPT !.pc = "gpu_test",
                                !.gpu_sensors = [alias |-> TRUE, content |-> EmptyDict]]
    /\ WorkerUnchanged

\* if not gpu_sensors: return {}
TickGpuTest ==
    /\ worker.pc = "gpu_test"
    /\ worker' = IF Deref(worker.gpu_sensors, gpu_sensors) = EmptyDict
                   THEN [worker EXCEPT !.pc = "storage_local"]
                   ELSE [worker EXCEPT !.pc = "gpu_get", !.pos = 1]
    /\ WorkerUnchanged

\* gpu_sensors.get(name) for the next name; a sensor got is read.
TickGpuGet ==
    /\ worker.pc = "gpu_get"
    /\ \E name \in {TickGpuNames[worker.pos]},
          d \in {Deref(worker.gpu_sensors, gpu_sensors)} :
         worker' = [worker EXCEPT
                      !.gpu_read = IF name \in DOMAIN d THEN Put(@, name, d[name]) ELSE @,
                      !.pos = IF worker.pos = Len(TickGpuNames) THEN 0 ELSE @ + 1,
                      !.pc = IF worker.pos = Len(TickGpuNames) THEN "storage_local" ELSE @]
    /\ WorkerUnchanged

\* read_storage_temperatures: storage_sensors = self.hw_manager.storage_sensors
TickStorageLocal ==
    /\ worker.pc = "storage_local"
    /\ worker' = [worker EXCEPT !.pc = "storage_test",
                                !.storage_sensors = [alias |-> TRUE, content |-> <<>>]]
    /\ WorkerUnchanged

\* if not storage_sensors: return []
TickStorageTest ==
    /\ worker.pc = "storage_test"
    /\ worker' = IF Deref(worker.storage_sensors, storage_sensors) = <<>>
                   THEN [worker EXCEPT !.pc = "done"]
                   ELSE [worker EXCEPT !.pc = "storage_iter"]
    /\ WorkerUnchanged

\* storage_sensors.items() and the iterator of the for loop, which remembers
\* how many items the dict has
TickStorageIter ==
    /\ worker.pc = "storage_iter"
    /\ worker' = [worker EXCEPT !.pc = "storage_next", !.pos = 1,
                                !.used = Len(Deref(worker.storage_sensors, storage_sensors))]
    /\ WorkerUnchanged

\* The for loop asks the iterator for the next item: RuntimeError
\* ("dictionary changed size during iteration") when the dict has another
\* number of items than remembered, the end of the loop after the last item,
\* else the item at the iterator's position, whose sensor is read. Nothing in
\* read_all_sensors catches the error.
TickStorageNext ==
    /\ worker.pc = "storage_next"
    /\ \E d \in {Deref(worker.storage_sensors, storage_sensors)} :
         worker' = IF Len(d) # worker.used THEN [worker EXCEPT !.pc = "raised"]
                   ELSE IF worker.pos > Len(d) THEN [worker EXCEPT !.pc = "done"]
                   ELSE [worker EXCEPT !.temps = Append(@, d[worker.pos]),
                                       !.pos = @ + 1]
    /\ WorkerUnchanged

\* The HardwareManager as constructed on `nodes`, with the sensors of the
\* first graphics card active when `selected`.
RaceStart(nodes, selected) ==
    LET d == DetectHardware([cpus |-> <<>>, gpus |-> <<>>, storage |-> <<>>], nodes)
        cache == "_hardware_fingerprint" :> JStr(CreateHardwareFingerprint(nodes))
        r == IF selected /\ d.gpus # <<>>
               THEN ProcessGpu(cache, EmptyDict, NodeById(d.gpus[1]))
               ELSE [cache |-> cache, wrote |-> {}, gpu_sensors |-> EmptyDict]
    IN  [cpus |-> d.cpus, gpus |-> d.gpus, storage |-> d.storage, cache |-> r.cache,
         gpu_sensors |-> r.gpu_sensors,
         failed |-> IF selected /\ d.gpus # <<>>
                      THEN GpuFailures(EmptyDict, NodeById(d.gpus[1]), r.gpu_sensors, 1)
                      ELSE EmptyDict]

InitRace ==
    /\ InitHealth
    /\ SaveIdle
    /\ worker = WorkerIdle
    /\ control = ControlIdle
    /\ tempFiles = {}
    /\ backups = {}
    /\ lastOp = NoOp
    /\ opCount = 0
    /\ hardware \in RaceOrders
    /\ cache_updated = FALSE
    /\ computer = TRUE
    /\ cpu_sensor = NoSensor
    /\ \E selected \in BOOLEAN :
         \E m \in {RaceStart(hardware, selected)} :
           /\ cpus = m.cpus
           /\ gpus = m.gpus
           /\ storage_sensors = m.storage
           /\ gpu_sensors = m.gpu_sensors
           /\ sensor_cache = m.cache
           /\ failed_sensors = m.failed
           /\ hardware_fingerprint = CreateHardwareFingerprint(hardware)
           /\ cacheFile = SaveSensorCache(m.cache, NoFile, {}, 0, "ok").target

NextRace ==
    \/ StartRefresh \/ StartReset \/ StartSelectGpu \/ ControlStep
    \/ TickStart \/ TickGpuLocal \/ TickGpuTest \/ TickGpuGet
    \/ TickStorageLocal \/ TickStorageTest \/ TickStorageIter \/ TickStorageNext
SpecRace == InitRace /\ [][NextRace]_vars

(***************************************************************************)
(* Claims about a tick that runs while the active sensors change.           *)
(***************************************************************************)
\* What one call of read_gpu_data reads of the dict d when nothing disturbs
\* it: the sensors under the names it asks for.
GpuReadOf(d) == [name \in (DOMAIN d) \cap Range(TickGpuNames) |-> d[name]]

\* The tick and the control thread's call have both come to their end.
TickAndCallOver ==
    /\ worker.pc \in {"done", "raised"}
    /\ control.op # "none"
    /\ control.todo = <<>>

\* C26: a tick that ran beside refresh, reset or a GPU selection did not
\* raise, and the GPU sensors and the storage sensors it read are each
\* either all those active before the call or all those active after it.
C26_TickSeesBeforeOrAfter ==
    TickAndCallOver =>
      /\ worker.pc = "done"
      /\ \/ worker.gpu_read = GpuReadOf(control.gpu_before)
         \/ worker.gpu_read = GpuReadOf(gpu_sensors)
      /\ \/ worker.temps = control.storage_before
         \/ worker.temps = storage_sensors

(***************************************************************************)
(* Specification of a SensorManager whose HardwareManager changes the       *)
(* active sensors between two ticks.                                        *)
(***************************************************************************)
MaxSwitchReads == 4
MaxSwitchSteps == 1

\* What computer.Hardware lists: two processors, or a processor and a card.
SwitchOrders == { <<CpuA, CpuC>>, <<CpuC, CpuA>>, <<CpuA, GpuA>> }

TickSwitch == Constructed /\ ReadAllSensors(MaxSwitchReads, {"value", "raises"})
ClockSwitch == Constructed /\ AdvanceClock(MaxSwitchSteps, {ShortStep})

InitSwitch ==
    /\ InitHealth
    /\ Sequential
    /\ SaveIdle
    /\ cpu_sensor = NoSensor
    /\ gpu_sensors = EmptyDict
    /\ storage_sensors = <<>>
    /\ cacheFile = NoFile
    /\ tempFiles = {}
    /\ backups = {}
    /\ sensor_cache = EmptyDict
    /\ lastOp = NoOp
    /\ opCount = 0
    /\ hardware \in SwitchOrders
    /\ hardware_fingerprint = ""
    /\ cache_updated = FALSE
    /\ cpus = <<>>
    /\ gpus = <<>>
    /\ computer = FALSE

NextSwitch == Construct \/ SelectCpu \/ SelectGpu \/ TickSwitch \/ ClockSwitch
SpecSwitch == InitSwitch /\ [][NextSwitch]_vars

(***************************************************************************)
(* Claims about the health of a sensor that has just become active.         *)
(***************************************************************************)
\* What _safe_sensor_read(sensor, sensor_key) does at time t with the health
\* records `health` when the sensor has a value.
ReadNow(health, sensor_key, t) ==
    SafeSensorRead([health |-> health, reads |-> 0, ok |-> 0, failed |-> 0,
                    log |-> EmptyDict, data |-> {}], sensor_key, "value", t).log[sensor_key]

\* C27: when select_cpu has made another sensor the active CPU temperature
\* sensor, a read of it is attempted, not skipped, whatever the health of the
\* sensor that was active before.
C27_NewSensorStartsHealthy ==
    [][ (lastOp'.op = "select_cpu" /\ cpu_sensor # NoSensor
           /\ cpu_sensor' \notin {NoSensor, cpu_sensor}) =>
          ~ReadNow(sensor_health', "cpu_temp", now').skipped ]_vars

(***************************************************************************)
(* Claims about resolutions that follow a successful one.                   *)
(***************************************************************************)
\* C28: a selection writes no cache key that the cache already maps, that
\* is, a pair resolved and cached before is answered from the cache without a
\* new search result being stored, wherever in the tree its sensor is.
C28_ResolvedPairsAreCacheHits ==
    [][ lastOp'.op \in {"select_cpu", "select_gpu"} =>
          lastOp'.wrote \cap DOMAIN SensorEntries(sensor_cache) = {} ]_vars

(***************************************************************************)
(* Claims about the lists of processors and graphics cards.                 *)
(***************************************************************************)
Occurrences(list, id) == Cardinality({i \in 1..Len(list) : list[i] = id})

\* C29: after initialization, refresh or reset has enumerated the devices,
\* every enumerated processor or graphics card is listed exactly once in
\* self.cpus and self.gpus together, and nothing else is listed.
C29_EachDeviceListedOnce ==
    EnumerationPass =>
      /\ \A i \in 1..Len(hardware) :
           Occurrences(cpus, hardware[i].id) + Occurrences(gpus, hardware[i].id) = 1
      /\ Len(cpus) + Len(gpus) = Len(hardware)

(***************************************************************************)
(* Claims about the record of failed resolutions.                           *)
(***************************************************************************)
\* C30: after select_cpu has resolved the CPU temperature on a processor,
\* failed_sensors has an entry for the metric exactly if that resolution
\* failed, and the entry of a failure names the processor and holds the
\* trace of the search.
C30_FailuresAreTheLatestOutcome ==
    [][ (lastOp'.op = "select_cpu" /\ lastOp'.target # NoSensor) =>
          /\ ("CPU_PACKAGE_TEMP" \in DOMAIN failed_sensors') <=> (cpu_sensor' = NoSensor)
          /\ cpu_sensor' = NoSensor =>
               /\ failed_sensors'["CPU_PACKAGE_TEMP"].hardware = NodeById(lastOp'.target).name
               /\ failed_sensors'["CPU_PACKAGE_TEMP"].debug_info # <<>> ]_vars
====
